---- MODULE Spec2Model ----
(***************************************************************************)
(* Model of the suraksha-map degradation pipeline: the page's report       *)
(* collection and the map's report normalizer (Spec), the rule-based       *)
(* classifier of the AI assistant (SpecAI) and the rendering mode          *)
(* selectors of the map, the category chart and the analytics dashboard    *)
(* (SpecViews).                                                            *)
(***************************************************************************)
EXTENDS Integers, Sequences, FiniteSets, TLC

VARIABLES
    clock,        \* Date.now(), abstracted to a small counter
    newReports,   \* Home: newReports state, the prop handed to CivicMap
    categoryData, \* Home: categoryData state, the prop handed to CategoryChart
    allMarkers,   \* CivicMap: allMarkers state
    navigatorOnLine, \* the platform's connectivity indicator, navigator.onLine
    assistant,    \* AIAssistant: its useState fields
    aiCall,       \* AIAssistant: the handleClassify in flight (its timer and captured text)
    aiMounted,    \* AIAssistant: mounted
    previousRun,  \* history: the result of the run before the current one, kept while
                  \* the text and the connectivity / override setting are unchanged
    clsInput,     \* classify(text): the text and the rule table it is applied with
    clsOutput,    \* classify(text): the ClassificationResult, NULL before the call
    view,         \* the view under observation: "none" before one of the three is mounted
    map,          \* CivicMap: its useState fields and mapInstanceRef
    mapInits,     \* CivicMap: initializeMap calls in flight and pending fallback timers
    chart,        \* CategoryChart: its useState fields and the categoryData prop
    dash,         \* AnalyticsComponent: its useState fields and the loading prop
    loader,       \* Google Charts: script tags and charts on-load callbacks pending
    window,       \* globals: window.google, window.googleChartsLoaded, the leaflet
                  \* module cache and the localStorage snapshot
    selectorLog,  \* history: the last trigger of the view and the library load
                  \* attempts started since
    saveLog,      \* history: the last saveOfflineData call (n alternates with every
                  \* call), whether it stored, and the last snapshot that was stored
    dashReports,  \* AnalyticsComponent: the reports prop
    filters,      \* AnalyticsComponent: filters state
    dashNow,      \* AnalyticsComponent: new Date() while its memos are computed
    dashMemo,     \* AnalyticsComponent: filteredReports, analyticsData, kpiMetrics
    chartAnalytics, \* CategoryChart: analytics state
    reports,      \* Home: reports state, shown in the Recent Reports panel
    form,         \* ReportForm: its useState fields and the handleSubmit in flight
    formLog,      \* history: the last step of the form and the onSubmit calls of the
                  \* handleSubmit that made it
    votes,        \* useReports: the stored report document, each client's data and
                  \* the upvoteReport / downvoteReport calls in flight
    hook          \* useOfflineSupport: its useState fields, the syncs in flight and
                  \* the operations executed

pageVars == <<clock, newReports, reports, categoryData, allMarkers>>
aiVars == <<assistant, aiCall, aiMounted, previousRun>>
clsVars == <<clsInput, clsOutput>>
viewVars == <<view, map, mapInits, chart, dash, loader, window, selectorLog, saveLog>>
aggVars == <<dashReports, filters, dashNow, dashMemo, chartAnalytics>>
lateVars == <<form, formLog, votes, hook>>
vars == <<pageVars, navigatorOnLine, aiVars, clsVars, viewVars, aggVars, lateVars>>

\* null / undefined for object-valued fields (string-valued fields use "null")
NULL == [null |-> TRUE]

\* ---------------------------------------------------------------- bounds
MaxReports == 2
MaxClock == 1
MaxWords == 3
MaxTyped == 1
MaxInFlight == 2
MaxMapReports == 1
MaxDashReports == 2
MaxChartReports == 4
MaxFormReports == 2
MaxPageReports == 4
MaxVotes == 3
MaxOperations == 3
MaxSyncs == 2
MaxExecuted == 5

\* ------------------------------------------------------- report normalizer
\* Coordinates are degrees scaled by 10^4 (10.8505 is 108505).
sampleMarkers ==
    << [id |-> <<"1">>, lat |-> 108505, lng |-> 762711, title |-> <<"Road Pothole">>,
        type |-> "infrastructure", priority |-> "high", status |-> "open"],
       [id |-> <<"2">>, lat |-> 99312, lng |-> 762673, title |-> <<"Street Light Outage">>,
        type |-> "infrastructure", priority |-> "medium", status |-> "in-progress"],
       [id |-> <<"3">>, lat |-> 112588, lng |-> 757804, title |-> <<"Water Logging">>,
        type |-> "environment", priority |-> "high", status |-> "open"],
       [id |-> <<"4">>, lat |-> 88932, lng |-> 766141, title |-> <<"Traffic Signal Issue">>,
        type |-> "safety", priority |-> "high", status |-> "resolved"],
       [id |-> <<"5">>, lat |-> 105276, lng |-> 762144, title |-> <<"Waste Accumulation">>,
        type |-> "environment", priority |-> "medium", status |-> "open"] >>

FormCategories == {"Safety Issue", "Infrastructure", "Environmental", "Traffic", "Other"}

\* Names of properties every object literal inherits from Object.prototype
\* (of these, the two the inputs below use)
ObjectPrototypeKeys == {"constructor", "__proto__"}

\* what reading such a property of an object literal gives, as the string it
\* becomes in a concatenation
Inherited(key) ==
    CASE key = "constructor" -> "function Object() { [native code] }"
      [] key = "__proto__" -> "[object Object]"

\* { ...prev, [category]: (prev[category] || 0) + 1 }: a number is counted
\* up; what an inherited property holds becomes a string with "1" appended,
\* kept as the sequence of its parts
CountReport(prev, category) ==
    LET own == category \in DOMAIN prev
        value == IF category \in ObjectPrototypeKeys
                 THEN Append(IF own THEN prev[category] ELSE <<Inherited(category)>>, "1")
                 ELSE (IF own THEN prev[category] ELSE 0) + 1
    IN [c \in DOMAIN prev \cup {category} |-> IF c = category THEN value ELSE prev[c]]

\* Category strings a caller can put in a NewReport (category: string): the
\* form's labels, a string outside the mapping table, and the name of an
\* inherited property.
ReportCategories == FormCategories \cup {"Pets", "constructor"}

\* coordinates?: { lat, lon } -- NULL stands for an absent field
ReportCoordinates == {NULL, [lat |-> 100000, lon |-> 760000], [lat |-> 85000, lon |-> 770000]}

NewReport == [category : ReportCategories, coordinates : ReportCoordinates]

categoryTypeMap(category) ==
    CASE category = "Safety Issue" -> "safety"
      [] category = "Infrastructure" -> "infrastructure"
      [] category = "Environmental" -> "environment"
      [] category = "Traffic" -> "traffic"
      [] category = "Other" -> "other"
      [] category \in ObjectPrototypeKeys -> Inherited(category)
      [] OTHER -> "undefined"

\* A mutant of convertReportToMarker: a report without coordinates is placed
\* at the default map centre instead of being dropped.
convertReportToMarkerDefaulted(report, index, now) ==
    LET c == IF report.coordinates = NULL
             THEN [lat |-> 108505, lon |-> 762711] ELSE report.coordinates
    IN [id |-> <<"report", now, index>>, lat |-> c.lat, lng |-> c.lon,
        title |-> <<"New Report: ", report.category>>,
        type |-> IF categoryTypeMap(report.category) # "undefined"
                 THEN categoryTypeMap(report.category) ELSE "other",
        priority |-> "medium", status |-> "open"]

convertReportToMarker(report, index, now) ==
    IF report.coordinates = NULL
    THEN NULL
    ELSE [id |-> <<"report", now, index>>,
          lat |-> report.coordinates.lat,
          lng |-> report.coordinates.lon,
          title |-> <<"New Report: ", report.category>>,
          type |-> IF categoryTypeMap(report.category) # "undefined"
                   THEN categoryTypeMap(report.category) ELSE "other",
          priority |-> "medium", status |-> "open"]

RECURSIVE FilterNotNull(_)
FilterNotNull(s) ==
    IF s = <<>> THEN <<>>
    ELSE IF Head(s) = NULL THEN FilterNotNull(Tail(s))
         ELSE <<Head(s)>> \o FilterNotNull(Tail(s))

\* newReports.map((report, index) => convertReportToMarker(report, index))
\*           .filter(marker => marker !== null), behind the sample markers
MarkersFor(submitted, now) ==
    IF Len(submitted) > 0
    THEN sampleMarkers \o
         FilterNotNull([i \in 1..Len(submitted) |->
                            convertReportToMarker(submitted[i], i - 1, now)])
    ELSE sampleMarkers

\* ------------------------------------------------------ rule-based classifier
\* A text is a sequence of one-character strings.
LowerLetters == {"a", "b", "c", "d", "e", "f", "g", "h", "i", "j", "k", "l", "m", "n", "o", "p", "q", "r", "s", "t", "u", "v", "w", "x", "y", "z"}
UpperLetters == {"A", "B", "C", "D", "E", "F", "G", "H", "I", "J", "K", "L", "M", "N", "O", "P", "Q", "R", "S", "T", "U", "V", "W", "X", "Y", "Z"}
Digits == {"0", "1", "2", "3", "4", "5", "6", "7", "8", "9"}

\* \w of the regular expressions
WordChars == LowerLetters \cup UpperLetters \cup Digits \cup {"_"}
IsWordChar(c) == c \in WordChars

IsSpace(c) == c \in {" ", "\t", "\n"}

LowerChar(c) ==
    CASE c = "A" -> "a"
      [] c = "B" -> "b"
      [] c = "C" -> "c"
      [] c = "D" -> "d"
      [] c = "E" -> "e"
      [] c = "F" -> "f"
      [] c = "G" -> "g"
      [] c = "H" -> "h"
      [] c = "I" -> "i"
      [] c = "J" -> "j"
      [] c = "K" -> "k"
      [] c = "L" -> "l"
      [] c = "M" -> "m"
      [] c = "N" -> "n"
      [] c = "O" -> "o"
      [] c = "P" -> "p"
      [] c = "Q" -> "q"
      [] c = "R" -> "r"
      [] c = "S" -> "s"
      [] c = "T" -> "t"
      [] c = "U" -> "u"
      [] c = "V" -> "v"
      [] c = "W" -> "w"
      [] c = "X" -> "x"
      [] c = "Y" -> "y"
      [] c = "Z" -> "z"
      [] OTHER -> c

\* String.prototype.toLowerCase
toLowerCase(text) == [i \in 1..Len(text) |-> LowerChar(text[i])]

RECURSIVE trimStart(_)
trimStart(text) ==
    IF text # <<>> /\ IsSpace(Head(text)) THEN trimStart(Tail(text)) ELSE text

RECURSIVE trimEnd(_)
trimEnd(text) ==
    IF text # <<>> /\ IsSpace(text[Len(text)])
    THEN trimEnd(SubSeq(text, 1, Len(text) - 1)) ELSE text

\* String.prototype.trim
trim(text) == trimEnd(trimStart(text))

\* String.prototype.includes
includes(text, kw) ==
    \E i \in 1..(Len(text) - Len(kw) + 1) :
        text[i] = kw[1] /\ SubSeq(text, i, i + Len(kw) - 1) = kw

\* text.match(/\b(k1|k2|...)\b/): some alternative occurs with a word boundary
\* on both sides (every alternative starts and ends with a word character)
matchWords(text, kws) ==
    \E i \in 1..Len(text) :
        /\ (i = 1 \/ ~IsWordChar(text[i - 1]))
        /\ \E kw \in kws :
              /\ i + Len(kw) - 1 <= Len(text)
              /\ text[i] = kw[1]
              /\ SubSeq(text, i, i + Len(kw) - 1) = kw
              /\ (i + Len(kw) - 1 = Len(text) \/ ~IsWordChar(text[i + Len(kw)]))

includesAny(text, kws) == \E kw \in kws : includes(text, kw)

\* part_002:838  /\b(danger|unsafe|hazard|risk|emergency|urgent|critical|accident|injury|fire|violence|threat)\b/
Offline_safety ==
    {<<"d","a","n","g","e","r">>, <<"u","n","s","a","f","e">>, <<"h","a","z","a","r","d">>,
      <<"r","i","s","k">>, <<"e","m","e","r","g","e","n","c","y">>, <<"u","r","g","e","n","t">>,
      <<"c","r","i","t","i","c","a","l">>, <<"a","c","c","i","d","e","n","t">>,
      <<"i","n","j","u","r","y">>, <<"f","i","r","e">>, <<"v","i","o","l","e","n","c","e">>,
      <<"t","h","r","e","a","t">>}
\* part_002:848  /\b(pothole|road|bridge|water|pipe|sewer|light|electricity|power|construction|building|repair|maintenance)\b/
Offline_infrastructure ==
    {<<"p","o","t","h","o","l","e">>, <<"r","o","a","d">>, <<"b","r","i","d","g","e">>,
      <<"w","a","t","e","r">>, <<"p","i","p","e">>, <<"s","e","w","e","r">>,
      <<"l","i","g","h","t">>, <<"e","l","e","c","t","r","i","c","i","t","y">>,
      <<"p","o","w","e","r">>, <<"c","o","n","s","t","r","u","c","t","i","o","n">>,
      <<"b","u","i","l","d","i","n","g">>, <<"r","e","p","a","i","r">>,
      <<"m","a","i","n","t","e","n","a","n","c","e">>}
\* part_002:858  /\b(pollution|noise|air|water|waste|garbage|trash|environment|green|tree|park|clean)\b/
Offline_environmental ==
    {<<"p","o","l","l","u","t","i","o","n">>, <<"n","o","i","s","e">>, <<"a","i","r">>,
      <<"w","a","t","e","r">>, <<"w","a","s","t","e">>, <<"g","a","r","b","a","g","e">>,
      <<"t","r","a","s","h">>, <<"e","n","v","i","r","o","n","m","e","n","t">>,
      <<"g","r","e","e","n">>, <<"t","r","e","e">>, <<"p","a","r","k">>, <<"c","l","e","a","n">>}
\* part_002:868  /\b(traffic|car|vehicle|parking|signal|jam|congestion|speed|driving|transport)\b/
Offline_traffic ==
    {<<"t","r","a","f","f","i","c">>, <<"c","a","r">>, <<"v","e","h","i","c","l","e">>,
      <<"p","a","r","k","i","n","g">>, <<"s","i","g","n","a","l">>, <<"j","a","m">>,
      <<"c","o","n","g","e","s","t","i","o","n">>, <<"s","p","e","e","d">>,
      <<"d","r","i","v","i","n","g">>, <<"t","r","a","n","s","p","o","r","t">>}
\* part_002:878  /\b(urgent|asap|immediately|now|quick|fast|emergency)\b/
Offline_urgency ==
    {<<"u","r","g","e","n","t">>, <<"a","s","a","p">>,
      <<"i","m","m","e","d","i","a","t","e","l","y">>, <<"n","o","w">>, <<"q","u","i","c","k">>,
      <<"f","a","s","t">>, <<"e","m","e","r","g","e","n","c","y">>}
\* part_002:888  /\b(what|when|where|why|how|question|help|support)\b/
Offline_question ==
    {<<"w","h","a","t">>, <<"w","h","e","n">>, <<"w","h","e","r","e">>, <<"w","h","y">>,
      <<"h","o","w">>, <<"q","u","e","s","t","i","o","n">>, <<"h","e","l","p">>,
      <<"s","u","p","p","o","r","t">>}
\* part_002:898  /\b(thank|thanks|great|excellent|good|awesome|wonderful|appreciate|love|perfect)\b/
Offline_positive ==
    {<<"t","h","a","n","k">>, <<"t","h","a","n","k","s">>, <<"g","r","e","a","t">>,
      <<"e","x","c","e","l","l","e","n","t">>, <<"g","o","o","d">>,
      <<"a","w","e","s","o","m","e">>, <<"w","o","n","d","e","r","f","u","l">>,
      <<"a","p","p","r","e","c","i","a","t","e">>, <<"l","o","v","e">>,
      <<"p","e","r","f","e","c","t">>}
\* part_002:908  /\b(problem|issue|error|bug|broken|not working|failed|wrong|trouble)\b/
Offline_issue ==
    {<<"p","r","o","b","l","e","m">>, <<"i","s","s","u","e">>, <<"e","r","r","o","r">>,
      <<"b","u","g">>, <<"b","r","o","k","e","n">>,
      <<"n","o","t"," ","w","o","r","k","i","n","g">>, <<"f","a","i","l","e","d">>,
      <<"w","r","o","n","g">>, <<"t","r","o","u","b","l","e">>}
\* part_002:918  /\b(suggest|improve|feature|enhancement|better|could|should|would|idea)\b/
Offline_suggestion ==
    {<<"s","u","g","g","e","s","t">>, <<"i","m","p","r","o","v","e">>,
      <<"f","e","a","t","u","r","e">>, <<"e","n","h","a","n","c","e","m","e","n","t">>,
      <<"b","e","t","t","e","r">>, <<"c","o","u","l","d">>, <<"s","h","o","u","l","d">>,
      <<"w","o","u","l","d">>, <<"i","d","e","a">>}
\* part_002:972  includes("urgent") || includes("emergency") || includes("critical")
Online_urgency ==
    {<<"u","r","g","e","n","t">>, <<"e","m","e","r","g","e","n","c","y">>,
      <<"c","r","i","t","i","c","a","l">>}
\* part_002:976  includes("safety") || includes("danger") || includes("risk")
Online_safety ==
    {<<"s","a","f","e","t","y">>, <<"d","a","n","g","e","r">>, <<"r","i","s","k">>}
\* part_002:980  includes("road") || includes("traffic") || includes("transport")
Online_traffic ==
    {<<"r","o","a","d">>, <<"t","r","a","f","f","i","c">>, <<"t","r","a","n","s","p","o","r","t">>}
\* part_002:984  includes("environment") || includes("pollution") || includes("waste")
Online_environmental ==
    {<<"e","n","v","i","r","o","n","m","e","n","t">>, <<"p","o","l","l","u","t","i","o","n">>,
      <<"w","a","s","t","e">>}
\* part_002:988  includes("infrastructure") || includes("repair") || includes("maintenance")
Online_infrastructure ==
    {<<"i","n","f","r","a","s","t","r","u","c","t","u","r","e">>, <<"r","e","p","a","i","r">>,
      <<"m","a","i","n","t","e","n","a","n","c","e">>}
\* part_002:992  includes("question") || includes("help") || includes("?")
Online_question ==
    {<<"q","u","e","s","t","i","o","n">>, <<"h","e","l","p">>, <<"?">>}
\* part_002:996  includes("thank") || includes("great") || includes("excellent")
Online_positive ==
    {<<"t","h","a","n","k">>, <<"g","r","e","a","t">>, <<"e","x","c","e","l","l","e","n","t">>}
\* part_002:1000  includes("issue") || includes("problem") || includes("error")
Online_issue ==
    {<<"i","s","s","u","e">>, <<"p","r","o","b","l","e","m">>, <<"e","r","r","o","r">>}
\* part_002:1004  includes("suggestion") || includes("improve") || includes("feature")
Online_suggestion ==
    {<<"s","u","g","g","e","s","t","i","o","n">>, <<"i","m","p","r","o","v","e">>,
      <<"f","e","a","t","u","r","e">>}

\* The rules of offlineClassification in the order they are listed: the
\* alternatives of the regular expression, the characters tested with
\* includes, and the category returned.
OfflineRules ==
    << [keywords |-> Offline_safety, marks |-> {}, category |-> "Safety Issue",
        confidence |-> 92,
        reasoning |-> "Detected safety-related keywords and risk indicators in the text."],
       [keywords |-> Offline_infrastructure, marks |-> {}, category |-> "Infrastructure",
        confidence |-> 88,
        reasoning |-> "Identified infrastructure and maintenance-related terminology."],
       [keywords |-> Offline_environmental, marks |-> {}, category |-> "Environmental",
        confidence |-> 85,
        reasoning |-> "Found environmental and sustainability-related terms."],
       [keywords |-> Offline_traffic, marks |-> {}, category |-> "Traffic",
        confidence |-> 87,
        reasoning |-> "Detected transportation and traffic-related content."],
       [keywords |-> Offline_urgency, marks |-> {<<"!">>}, category |-> "High Priority",
        confidence |-> 83,
        reasoning |-> "Identified urgency indicators suggesting high priority classification."],
       [keywords |-> Offline_question, marks |-> {<<"?">>}, category |-> "Support Request",
        confidence |-> 80,
        reasoning |-> "Text appears to be a question or support request based on structure and keywords."],
       [keywords |-> Offline_positive, marks |-> {}, category |-> "Positive Feedback",
        confidence |-> 86,
        reasoning |-> "Detected positive sentiment and appreciation expressions."],
       [keywords |-> Offline_issue, marks |-> {}, category |-> "Issue Report",
        confidence |-> 84,
        reasoning |-> "Identified problem reporting language and error indicators."],
       [keywords |-> Offline_suggestion, marks |-> {}, category |-> "Feature Request",
        confidence |-> 78,
        reasoning |-> "Found suggestion and improvement-oriented language patterns."] >>

\* The rules of the simulated online call in the order they are listed.
OnlineRules ==
    << [keywords |-> Online_urgency, category |-> "High Priority", confidence |-> 95,
        reasoning |-> "High priority indicators detected with strong confidence based on urgency keywords."],
       [keywords |-> Online_safety, category |-> "Safety Issue", confidence |-> 93,
        reasoning |-> "Safety-related content identified through risk assessment keywords."],
       [keywords |-> Online_traffic, category |-> "Traffic", confidence |-> 90,
        reasoning |-> "Transportation and traffic-related content detected."],
       [keywords |-> Online_environmental, category |-> "Environmental", confidence |-> 89,
        reasoning |-> "Environmental concerns identified in the text content."],
       [keywords |-> Online_infrastructure, category |-> "Infrastructure", confidence |-> 87,
        reasoning |-> "Infrastructure and maintenance-related terminology found."],
       [keywords |-> Online_question, category |-> "Support Request", confidence |-> 85,
        reasoning |-> "Support request identified based on question patterns and help-seeking language."],
       [keywords |-> Online_positive, category |-> "Positive Feedback", confidence |-> 88,
        reasoning |-> "Positive sentiment analysis indicates appreciation or satisfaction."],
       [keywords |-> Online_issue, category |-> "Issue Report", confidence |-> 86,
        reasoning |-> "Problem reporting detected through issue identification keywords."],
       [keywords |-> Online_suggestion, category |-> "Feature Request", confidence |-> 82,
        reasoning |-> "Enhancement suggestions identified through improvement-oriented language."] >>

\* the predicate of one rule, on the text as typed
OfflineRuleMatches(rule, text) ==
    LET normalizedText == trim(toLowerCase(text)) IN
    \/ matchWords(normalizedText, rule.keywords)
    \/ \E m \in rule.marks : includes(normalizedText, m)

OnlineRuleMatches(rule, text) == includesAny(toLowerCase(text), rule.keywords)

OfflineMatching(text) ==
    {i \in 1..Len(OfflineRules) : OfflineRuleMatches(OfflineRules[i], text)}
OnlineMatching(text) ==
    {i \in 1..Len(OnlineRules) : OnlineRuleMatches(OnlineRules[i], text)}

Earliest(S) == CHOOSE i \in S : \A j \in S : i <= j
Latest(S) == CHOOSE i \in S : \A j \in S : i >= j

\* A mutant of offlineClassification: the last matching rule wins.
offlineClassificationLastMatch(text) ==
    IF OfflineMatching(text) = {}
    THEN [category |-> "Other", confidence |-> 60, isOfflineFallback |-> TRUE,
          reasoning |-> "Unable to determine specific category. Content may require manual review."]
    ELSE LET r == OfflineRules[Latest(OfflineMatching(text))] IN
         [category |-> r.category, confidence |-> r.confidence, isOfflineFallback |-> TRUE,
          reasoning |-> r.reasoning]

\* AIAssistant.offlineClassification: the first matching "if" returns.
\* confidence is in percent (0.92 is 92).
offlineClassification(text) ==
    LET normalizedText == trim(toLowerCase(text)) IN
    IF matchWords(normalizedText, Offline_safety)
    THEN [category |-> "Safety Issue", confidence |-> 92, isOfflineFallback |-> TRUE,
          reasoning |-> "Detected safety-related keywords and risk indicators in the text."]
    ELSE IF matchWords(normalizedText, Offline_infrastructure)
    THEN [category |-> "Infrastructure", confidence |-> 88, isOfflineFallback |-> TRUE,
          reasoning |-> "Identified infrastructure and maintenance-related terminology."]
    ELSE IF matchWords(normalizedText, Offline_environmental)
    THEN [category |-> "Environmental", confidence |-> 85, isOfflineFallback |-> TRUE,
          reasoning |-> "Found environmental and sustainability-related terms."]
    ELSE IF matchWords(normalizedText, Offline_traffic)
    THEN [category |-> "Traffic", confidence |-> 87, isOfflineFallback |-> TRUE,
          reasoning |-> "Detected transportation and traffic-related content."]
    ELSE IF matchWords(normalizedText, Offline_urgency) \/ includes(normalizedText, <<"!">>)
    THEN [category |-> "High Priority", confidence |-> 83, isOfflineFallback |-> TRUE,
          reasoning |-> "Identified urgency indicators suggesting high priority classification."]
    ELSE IF includes(normalizedText, <<"?">>) \/ matchWords(normalizedText, Offline_question)
    THEN [category |-> "Support Request", confidence |-> 80, isOfflineFallback |-> TRUE,
          reasoning |-> "Text appears to be a question or support request based on structure and keywords."]
    ELSE IF matchWords(normalizedText, Offline_positive)
    THEN [category |-> "Positive Feedback", confidence |-> 86, isOfflineFallback |-> TRUE,
          reasoning |-> "Detected positive sentiment and appreciation expressions."]
    ELSE IF matchWords(normalizedText, Offline_issue)
    THEN [category |-> "Issue Report", confidence |-> 84, isOfflineFallback |-> TRUE,
          reasoning |-> "Identified problem reporting language and error indicators."]
    ELSE IF matchWords(normalizedText, Offline_suggestion)
    THEN [category |-> "Feature Request", confidence |-> 78, isOfflineFallback |-> TRUE,
          reasoning |-> "Found suggestion and improvement-oriented language patterns."]
    ELSE [category |-> "Other", confidence |-> 60, isOfflineFallback |-> TRUE,
          reasoning |-> "Unable to determine specific category. Content may require manual review."]

\* A mutant of mockClassification: the rules are tried in the order of the
\* offline table (safety first) and the default copies the offline default.
mockClassificationOfflineOrder(inputText) ==
    LET order == <<2, 5, 4, 3, 1, 6, 7, 8, 9>>
        hits == {k \in 1..Len(order) : order[k] \in OnlineMatching(inputText)}
    IN IF hits = {}
       THEN [category |-> "Other", confidence |-> 60, isOfflineFallback |-> TRUE,
             reasoning |-> ""]
       ELSE LET r == OnlineRules[order[Earliest(hits)]] IN
            [category |-> r.category, confidence |-> r.confidence,
             isOfflineFallback |-> FALSE, reasoning |-> r.reasoning]

\* AIAssistant.handleClassify, the mock rules of the simulated online call: an
\* if / else-if chain over text.includes. The result carries no isOfflineFallback
\* field (undefined, rendered as false).
mockClassification(inputText) ==
    LET text == toLowerCase(inputText) IN
    IF includesAny(text, Online_urgency)
    THEN [category |-> "High Priority", confidence |-> 95, isOfflineFallback |-> FALSE,
          reasoning |-> "High priority indicators detected with strong confidence based on urgency keywords."]
    ELSE IF includesAny(text, Online_safety)
    THEN [category |-> "Safety Issue", confidence |-> 93, isOfflineFallback |-> FALSE,
          reasoning |-> "Safety-related content identified through risk assessment keywords."]
    ELSE IF includesAny(text, Online_traffic)
    THEN [category |-> "Traffic", confidence |-> 90, isOfflineFallback |-> FALSE,
          reasoning |-> "Transportation and traffic-related content detected."]
    ELSE IF includesAny(text, Online_environmental)
    THEN [category |-> "Environmental", confidence |-> 89, isOfflineFallback |-> FALSE,
          reasoning |-> "Environmental concerns identified in the text content."]
    ELSE IF includesAny(text, Online_infrastructure)
    THEN [category |-> "Infrastructure", confidence |-> 87, isOfflineFallback |-> FALSE,
          reasoning |-> "Infrastructure and maintenance-related terminology found."]
    ELSE IF includesAny(text, Online_question)
    THEN [category |-> "Support Request", confidence |-> 85, isOfflineFallback |-> FALSE,
          reasoning |-> "Support request identified based on question patterns and help-seeking language."]
    ELSE IF includesAny(text, Online_positive)
    THEN [category |-> "Positive Feedback", confidence |-> 88, isOfflineFallback |-> FALSE,
          reasoning |-> "Positive sentiment analysis indicates appreciation or satisfaction."]
    ELSE IF includesAny(text, Online_issue)
    THEN [category |-> "Issue Report", confidence |-> 86, isOfflineFallback |-> FALSE,
          reasoning |-> "Problem reporting detected through issue identification keywords."]
    ELSE IF includesAny(text, Online_suggestion)
    THEN [category |-> "Feature Request", confidence |-> 82, isOfflineFallback |-> FALSE,
          reasoning |-> "Enhancement suggestions identified through improvement-oriented language."]
    ELSE [category |-> "Other", confidence |-> 80, isOfflineFallback |-> FALSE,
          reasoning |-> ""]

\* Words the user types, separated by blanks.
Vocabulary ==
    { <<"D","a","n","g","e","r">>, <<"p","o","t","h","o","l","e">>,
      <<"u","r","g","e","n","t">>, <<"r","e","p","a","i","r">>,
      <<"t","r","a","f","f","i","c">>, <<"x","y","z","1","2","3">> }

RECURSIVE TextsOfWords(_)
TextsOfWords(n) ==
    IF n = 0 THEN {<<>>}
    ELSE LET shorter == TextsOfWords(n - 1) IN
         shorter \cup {w : w \in Vocabulary}
                 \cup {t \o <<" ">> \o w : t \in shorter \ {<<>>}, w \in Vocabulary}

\* the inputs of classify: texts of up to MaxWords words, and a blank text
Texts == TextsOfWords(MaxWords) \cup {<<" ">>}

\* classify(text) with the offline table, and with the online-simulated table
ClassifyOffline ==
    /\ clsInput.table = "none"
    /\ clsInput' = [clsInput EXCEPT !.table = "offline"]
    /\ clsOutput' = offlineClassification(clsInput.text)
    /\ UNCHANGED <<pageVars, navigatorOnLine, aiVars, aggVars, lateVars, viewVars>>

ClassifyOnline ==
    /\ clsInput.table = "none"
    /\ clsInput' = [clsInput EXCEPT !.table = "online"]
    /\ clsOutput' = mockClassification(clsInput.text)
    /\ UNCHANGED <<pageVars, navigatorOnLine, aiVars, aggVars, lateVars, viewVars>>

\* the texts the textarea can hold
TypedTexts == TextsOfWords(MaxTyped) \cup {<<" ">>}

\* offlineClassification tabulated over the texts that can be typed (@@ makes
\* the table explicit, so that a timer step looks its result up)
offlineClassificationOf == [t \in TypedTexts |-> offlineClassification(t)] @@ <<>>

WordCount(text) ==
    IF trim(text) = <<>> THEN 0
    ELSE 1 + Cardinality({i \in 1..Len(text) : text[i] = " "})

\* no handleClassify in flight; cleared is history: toggleFallbackMode has
\* cleared result and error and no classification has been started since
NoCall == [phase |-> "none", text |-> <<>>, cleared |-> FALSE]

\* the handleClassify in flight has stored its result
CallDone(call) == [call EXCEPT !.phase = "none", !.text = <<>>]
NoError == "null"
NoPreviousRun == [sameInput |-> FALSE, result |-> NULL]
NoInput == [text |-> <<>>, table |-> "none"]

\* window 'online' / 'offline' events (AIAssistant.handleOnline, handleOffline)
AIConnectivityChange ==
    /\ aiMounted
    /\ navigatorOnLine' = ~navigatorOnLine
    /\ assistant' = [assistant EXCEPT !.isOnline = navigatorOnLine']
    /\ previousRun' = NoPreviousRun
    /\ UNCHANGED <<aiCall, aiMounted, pageVars, clsVars, aggVars, lateVars, viewVars>>

\* Textarea onChange: a word is typed, the text is cleared, or a blank is typed
SetInputText ==
    /\ aiMounted
    /\ \/ \E w \in Vocabulary :
            /\ WordCount(assistant.inputText) < MaxTyped
            /\ assistant' = [assistant EXCEPT !.inputText =
                    IF trim(@) = <<>> THEN w ELSE @ \o <<" ">> \o w]
       \/ /\ assistant.inputText # <<>>
          /\ assistant' = [assistant EXCEPT !.inputText = <<>>]
       \/ /\ assistant.inputText = <<>>
          /\ assistant' = [assistant EXCEPT !.inputText = <<" ">>]
    /\ previousRun' = NoPreviousRun
    /\ UNCHANGED <<aiCall, aiMounted, navigatorOnLine, pageVars, clsVars, aggVars, lateVars, viewVars>>

\* The Classify button is disabled while loading or when the text is blank.
ClassifyEnabled == ~assistant.isLoading /\ trim(assistant.inputText) # <<>>

\* A mutant of HandleClassify: the manual override is ignored when the path
\* is chosen.
HandleClassifyIgnoresOverride ==
    /\ aiMounted
    /\ ClassifyEnabled
    /\ assistant' = [assistant EXCEPT !.isLoading = TRUE, !.error = NoError, !.result = NULL]
    /\ aiCall' = [phase |-> IF ~assistant.isOnline THEN "offlineDelay" ELSE "onlineDelay",
                  text |-> assistant.inputText, cleared |-> FALSE]
    /\ previousRun' = [sameInput |-> TRUE,
                       result |-> IF previousRun.sameInput THEN assistant.result ELSE NULL]
    /\ UNCHANGED <<aiMounted, navigatorOnLine, pageVars, clsVars, aggVars, lateVars, viewVars>>

\* handleClassify up to its first await: the timer of the chosen path starts
HandleClassify ==
    /\ aiMounted
    /\ ClassifyEnabled
    /\ assistant' = [assistant EXCEPT !.isLoading = TRUE, !.error = NoError, !.result = NULL]
    /\ aiCall' = [phase |-> IF ~assistant.isOnline \/ assistant.useOfflineFallback
                            THEN "offlineDelay" ELSE "onlineDelay",
                  text |-> assistant.inputText, cleared |-> FALSE]
    /\ previousRun' = [sameInput |-> TRUE,
                       result |-> IF previousRun.sameInput THEN assistant.result ELSE NULL]
    /\ UNCHANGED <<aiMounted, navigatorOnLine, pageVars, clsVars, aggVars, lateVars, viewVars>>

\* offline path: the 800 ms delay ends
OfflineDelayFires ==
    /\ aiCall.phase = "offlineDelay"
    /\ assistant' = IF aiMounted
                    THEN [assistant EXCEPT !.result = offlineClassificationOf[aiCall.text],
                                           !.isLoading = FALSE]
                    ELSE assistant
    /\ aiCall' = CallDone(aiCall)
    /\ UNCHANGED <<aiMounted, navigatorOnLine, previousRun, pageVars, clsVars, aggVars, lateVars, viewVars>>

\* A mutant of OnlineDelayFires: the catch branch shows the error and stops.
OnlineDelayFiresTerminalError ==
    /\ aiCall.phase = "onlineDelay"
    /\ \E failed \in BOOLEAN :
        assistant' = IF ~aiMounted THEN assistant
                     ELSE IF failed
                     THEN [assistant EXCEPT !.error = "AI service temporarily unavailable",
                                            !.isLoading = FALSE]
                     ELSE [assistant EXCEPT !.result = mockClassification(aiCall.text),
                                            !.isLoading = FALSE]
    /\ aiCall' = CallDone(aiCall)
    /\ UNCHANGED <<aiMounted, navigatorOnLine, previousRun, pageVars, clsVars, aggVars, lateVars, viewVars>>

\* online path: the 1500 ms timer fires; Math.random() < 0.3 rejects
OnlineDelayFires ==
    /\ aiCall.phase = "onlineDelay"
    /\ \E failed \in BOOLEAN :
        IF failed
        THEN /\ assistant' = IF aiMounted
                             THEN [assistant EXCEPT !.error =
                                     "AI service unavailable. Using offline classification..."]
                             ELSE assistant
             /\ aiCall' = [aiCall EXCEPT !.phase = "fallbackDelay"]
        ELSE /\ assistant' = IF aiMounted
                             THEN [assistant EXCEPT !.result = mockClassification(aiCall.text),
                                                    !.isLoading = FALSE]
                             ELSE assistant
             /\ aiCall' = CallDone(aiCall)
    /\ UNCHANGED <<aiMounted, navigatorOnLine, previousRun, pageVars, clsVars, aggVars, lateVars, viewVars>>

\* catch branch: the 1000 ms fallback timer fires
FallbackDelayFires ==
    /\ aiCall.phase = "fallbackDelay"
    /\ assistant' = IF aiMounted
                    THEN [assistant EXCEPT !.error = NoError,
                                           !.result = offlineClassificationOf[aiCall.text],
                                           !.isLoading = FALSE]
                    ELSE assistant
    /\ aiCall' = CallDone(aiCall)
    /\ UNCHANGED <<aiMounted, navigatorOnLine, previousRun, pageVars, clsVars, aggVars, lateVars, viewVars>>

\* the override button, enabled in every state of the mounted component
toggleFallbackMode ==
    /\ aiMounted
    /\ assistant' = [assistant EXCEPT !.useOfflineFallback = ~@, !.result = NULL,
                                      !.error = NoError]
    /\ aiCall' = [aiCall EXCEPT !.cleared = TRUE]
    /\ previousRun' = NoPreviousRun
    /\ UNCHANGED <<aiMounted, navigatorOnLine, pageVars, clsVars, aggVars, lateVars, viewVars>>

\* the effect's cleanup: the listeners are removed, the state is discarded;
\* a timer of a handleClassify in flight stays scheduled
AIUnmount ==
    /\ aiMounted
    /\ aiMounted' = FALSE
    /\ assistant' = NULL
    /\ previousRun' = NoPreviousRun
    /\ UNCHANGED <<aiCall, navigatorOnLine, pageVars, clsVars, aggVars, lateVars, viewVars>>

\* ------------------------------------------------ rendering mode selectors
\* One of the three views is mounted and observed at a time; what an earlier
\* visit left behind (window.google, the leaflet module cache, the snapshot in
\* localStorage) is part of the initial state.

MapErrorMessage == "Failed to load map. Switching to offline mode..."
ChartLoadErrorMessage == "Failed to load Google Charts. Using offline mode."
ChartRenderErrorMessage == "Failed to render chart"

\* the centre and zoom initializeMap uses without a snapshot
DefaultView == [center |-> <<108505, 762711>>, zoom |-> 7]

\* no map instance, hence no getCenter() / getZoom()
NoView == [center |-> <<0, 0>>, zoom |-> 0]

\* localStorage.getItem(OFFLINE_MAP_KEY) === null
NoItem == <<>>

\* JSON.stringify of an IncidentMarker and of an OfflineMapData: the text is
\* the values in the order of the keys, the markers last
StringifyMarker(m) == <<m.id, m.lat, m.lng, m.title, m.type, m.priority, m.status>>

JSONstringify(data) ==
    <<data.center[1], data.center[2], data.zoom, data.lastUpdated>>
        \o [i \in 1..Len(data.markers) |-> StringifyMarker(data.markers[i])]

\* JSON.parse of such a text
ParseMarker(t) ==
    [id |-> t[1], lat |-> t[2], lng |-> t[3], title |-> t[4], type |-> t[5],
     priority |-> t[6], status |-> t[7]]

\* A mutant of JSONparse: the centre is read as [lng, lat].
JSONparseSwapped(text) ==
    [center |-> <<text[2], text[1]>>, zoom |-> text[3],
     markers |-> [i \in 1..(Len(text) - 4) |-> ParseMarker(text[i + 4])],
     lastUpdated |-> text[4]]

JSONparse(text) ==
    [center |-> <<text[1], text[2]>>, zoom |-> text[3],
     markers |-> [i \in 1..(Len(text) - 4) |-> ParseMarker(text[i + 4])],
     lastUpdated |-> text[4]]

\* a snapshot an earlier visit has left in localStorage
EarlierSnapshot ==
    [center |-> <<100000, 760000>>, zoom |-> 14, markers |-> sampleMarkers,
     lastUpdated |-> 0]

\* CivicMap: the useState initial values; mounted stands for isClient (the
\* mount effect sets it before anything is initialized), instance for
\* mapInstanceRef.current # null, mapView for the centre and zoom of that
\* instance
IdleMap ==
    [mounted |-> FALSE, isLoading |-> TRUE, mapError |-> NoError, isOnline |-> TRUE,
     useOfflineMode |-> FALSE, offlineData |-> NULL, instance |-> FALSE,
     mapView |-> NoView]

\* initializeMap calls awaiting import('leaflet'), awaiting the 100 ms CSS
\* delay, and fallback timers (2000 ms) scheduled by the catch branch;
\* closures holds what each of the calls has captured
NoInits ==
    [importing |-> 0, waiting |-> 0, timers |-> 0,
     closures |-> [importing |-> <<>>, waiting |-> <<>>]]

NoSave == [n |-> 0, data |-> NULL, stored |-> FALSE, kept |-> NULL]

\* CategoryChart: the useState initial values; hasData is the hasData of the
\* categoryData prop
IdleChart ==
    [mounted |-> FALSE, chartError |-> NoError, isGoogleChartsLoaded |-> FALSE,
     useOfflineMode |-> FALSE, hasData |-> FALSE]

\* AnalyticsComponent: the useState initial values and the loading prop;
\* categoryPie is the rows drawn into the chartRefs.categoryPie container,
\* <<>> when the container is not rendered or nothing was drawn into it
IdleDash ==
    [mounted |-> FALSE, googleChartsLoaded |-> FALSE, googleChartsError |-> FALSE,
     isOffline |-> FALSE, loading |-> FALSE, categoryPie |-> <<>>]

\* loader.js script tags appended and not yet loaded or failed; charts.load
\* calls whose on-load callback has not run yet
NoLoads == [scripts |-> 0, callbacks |-> 0]

NoLog == [event |-> "none", attempts |-> 0]

InFlight(inits) == inits.importing + inits.waiting + inits.timers
Pending(l) == l.scripts + l.callbacks

\* A mutant of MapDisplay: the manual override is not consulted.
MapDisplayIgnoresOverride(m) ==
    IF ~m.mounted THEN "none"
    ELSE IF m.mapError # NoError THEN "error"
    ELSE IF ~m.isOnline THEN "fallback"
    ELSE "live"

\* CivicMap's render: the error panel, the offline map or the live container
MapDisplay(m) ==
    IF ~m.mounted THEN "none"
    ELSE IF m.mapError # NoError /\ ~m.useOfflineMode THEN "error"
    ELSE IF ~m.isOnline \/ m.useOfflineMode THEN "fallback"
    ELSE "live"

\* renderOfflineMap: offlineData?.markers || allMarkers
markersToDisplay(m, markers) ==
    IF m.offlineData # NULL THEN m.offlineData.markers ELSE markers

\* the loading overlay drawn over the map area
MapOverlay(m) == MapDisplay(m) \in {"fallback", "live"} /\ m.isLoading /\ ~m.useOfflineMode

\* initializeMap up to its first await. mapRef.current is set only while the
\* live container is rendered, and then isOnline and ~useOfflineMode hold, so
\* the offline early return is never taken.
initializeMap(m) ==
    IF MapDisplay(m) # "live" THEN [map |-> m, started |-> 0]
    ELSE [map |-> [m EXCEPT !.isLoading = TRUE, !.mapError = NoError], started |-> 1]

\* the effect on [isClient, isOnline, useOfflineMode]: when a dependency has
\* changed the cleanup removes the map instance and initializeMap runs again
MapEffect(old, new) ==
    IF new.mounted /\ (old.isOnline # new.isOnline \/ old.useOfflineMode # new.useOfflineMode)
    THEN initializeMap([new EXCEPT !.instance = FALSE, !.mapView = NoView])
    ELSE [map |-> new, started |-> 0]

\* the event a callback leaves in the log when it calls the state setters:
\* nothing cancels a pending initializeMap or its 2000 ms timer, so they also
\* run, and call the setters, after the component has unmounted
SetterCalled(m, event) == IF m.mounted THEN event ELSE "setState after unmount"

\* the catch branch of initializeMap (state writes after unmount are dropped)
MapCatch(m) == IF m.mounted THEN [m EXCEPT !.mapError = MapErrorMessage] ELSE m

\* what an initializeMap call keeps from the render that created it
Closure(m, markers) == [offlineData |-> m.offlineData, allMarkers |-> markers]

\* one more initializeMap call awaiting import('leaflet') when started = 1
StartCall(inits, started, m, markers) ==
    IF started = 1
    THEN [inits EXCEPT !.importing = @ + 1,
                       !.closures.importing = Append(@, Closure(m, markers))]
    ELSE inits

\* s without its i-th element
Without(s, i) == SubSeq(s, 1, i - 1) \o SubSeq(s, i + 1, Len(s))

\* A mutant of saveOfflineData: setOfflineData runs before localStorage.setItem,
\* so a failing save still replaces the snapshot in memory.
saveOfflineDataStateFirst(m, data, stored) ==
    [map |-> IF m.mounted THEN [m EXCEPT !.offlineData = data] ELSE m,
     snapshot |-> IF stored THEN JSONstringify(data) ELSE window.snapshot,
     log |-> [n |-> 1 - saveLog.n, data |-> data, stored |-> stored,
              kept |-> IF stored THEN data ELSE saveLog.kept]]

\* saveOfflineData: localStorage.setItem, then setOfflineData; when setItem
\* throws (stored = FALSE) the catch block only logs
saveOfflineData(m, data, stored) ==
    [map |-> IF stored /\ m.mounted THEN [m EXCEPT !.offlineData = data] ELSE m,
     snapshot |-> IF stored THEN JSONstringify(data) ELSE window.snapshot,
     log |-> [n |-> 1 - saveLog.n, data |-> data, stored |-> stored,
              kept |-> IF stored THEN data ELSE saveLog.kept]]

\* loadOfflineData: the stored item, parsed, or the state left as it is
loadOfflineData(m) ==
    IF window.snapshot # NoItem
    THEN [m EXCEPT !.offlineData = JSONparse(window.snapshot)]
    ELSE m

\* mount: the effect on [newReports] rebuilds allMarkers; setIsClient,
\* setIsOnline(navigator.onLine), loadOfflineData, then the first initializeMap
MapMount ==
    /\ view = "none"
    /\ view' = "map"
    /\ allMarkers' = MarkersFor(newReports, clock)
    /\ LET r == initializeMap(loadOfflineData([IdleMap EXCEPT !.mounted = TRUE,
                                                              !.isOnline = navigatorOnLine]))
       IN /\ map' = r.map
          /\ mapInits' = StartCall(mapInits, r.started, r.map, allMarkers')
          /\ selectorLog' = [event |-> "mount", attempts |-> r.started]
    /\ UNCHANGED <<clock, newReports, reports, categoryData, saveLog, chart, dash, loader, window,
                   navigatorOnLine, aiVars, aggVars, lateVars, clsVars>>

\* await import('leaflet') settles; a module already in the cache resolves
MapImportResolves ==
    /\ mapInits.importing > 0
    /\ \E ok \in BOOLEAN, i \in 1..Len(mapInits.closures.importing) :
        /\ window.leaflet => ok
        /\ IF ok
           THEN /\ mapInits' = [mapInits EXCEPT
                                  !.importing = @ - 1, !.waiting = @ + 1,
                                  !.closures.importing = Without(@, i),
                                  !.closures.waiting =
                                      Append(@, mapInits.closures.importing[i])]
                /\ window' = [window EXCEPT !.leaflet = TRUE]
                /\ UNCHANGED <<map, selectorLog>>
           ELSE /\ mapInits' = [mapInits EXCEPT !.importing = @ - 1, !.timers = @ + 1,
                                                !.closures.importing = Without(@, i)]
                /\ map' = MapCatch(map)
                /\ selectorLog' = [selectorLog EXCEPT !.event = SetterCalled(map, "failure")]
                /\ UNCHANGED window
    /\ UNCHANGED <<view, saveLog, chart, dash, loader, navigatorOnLine, pageVars, aiVars, aggVars, lateVars,
                   clsVars>>

\* the 100 ms delay ends: L.map(mapRef.current) throws when the container is
\* not rendered or already holds a map; otherwise the map is created at the
\* centre and zoom of the call's offlineData (or the defaults), the instance is
\* stored, isLoading cleared and, isOnline being true in every call that got
\* this far, the snapshot saved with the call's allMarkers
MapCssWaitEnds ==
    /\ mapInits.waiting > 0
    /\ \E i \in 1..Len(mapInits.closures.waiting) :
        LET call == mapInits.closures.waiting[i]
            initialView == IF call.offlineData # NULL
                           THEN [center |-> call.offlineData.center,
                                 zoom |-> call.offlineData.zoom]
                           ELSE DefaultView
            currentMapData == [center |-> initialView.center, zoom |-> initialView.zoom,
                               markers |-> call.allMarkers, lastUpdated |-> clock]
        IN IF MapDisplay(map) = "live" /\ ~map.instance
           THEN /\ \E stored \in BOOLEAN :
                     LET s == saveOfflineData([map EXCEPT !.instance = TRUE,
                                                          !.isLoading = FALSE,
                                                          !.mapView = initialView],
                                              currentMapData, stored)
                     IN /\ map' = s.map
                        /\ window' = [window EXCEPT !.snapshot = s.snapshot]
                        /\ saveLog' = s.log
                /\ mapInits' = [mapInits EXCEPT !.waiting = @ - 1,
                                                !.closures.waiting = Without(@, i)]
                /\ UNCHANGED selectorLog
           ELSE /\ map' = MapCatch(map)
                /\ mapInits' = [mapInits EXCEPT !.waiting = @ - 1, !.timers = @ + 1,
                                                !.closures.waiting = Without(@, i)]
                /\ selectorLog' = [selectorLog EXCEPT !.event = SetterCalled(map, "failure")]
                /\ UNCHANGED <<window, saveLog>>
    /\ UNCHANGED <<view, chart, dash, loader, navigatorOnLine, pageVars, aiVars, aggVars, lateVars, clsVars>>

\* A mutant of MapFallbackTimerFires: the timer clears the error and starts
\* the initialization once more instead of switching to the offline map.
MapFallbackTimerRetries ==
    /\ mapInits.timers > 0
    /\ LET r == initializeMap(IF map.mounted THEN [map EXCEPT !.mapError = NoError] ELSE map)
       IN /\ map' = r.map
          /\ mapInits' = StartCall([mapInits EXCEPT !.timers = @ - 1], r.started, r.map,
                                   allMarkers)
          /\ selectorLog' = [selectorLog EXCEPT !.attempts = @ + r.started]
    /\ UNCHANGED <<view, saveLog, chart, dash, loader, window, navigatorOnLine, pageVars,
                   aiVars, aggVars, lateVars, clsVars>>

\* the 2000 ms timer of the catch branch: setUseOfflineMode(true),
\* setMapError(null), setIsLoading(false), then the effect
MapFallbackTimerFires ==
    /\ mapInits.timers > 0
    /\ LET r == MapEffect(map, IF map.mounted
                               THEN [map EXCEPT !.useOfflineMode = TRUE,
                                                !.mapError = NoError,
                                                !.isLoading = FALSE]
                               ELSE map)
       IN /\ map' = r.map
          /\ mapInits' = StartCall([mapInits EXCEPT !.timers = @ - 1], r.started, r.map,
                                   allMarkers)
          /\ selectorLog' = [selectorLog EXCEPT !.attempts = @ + r.started,
                                                !.event = SetterCalled(map, @)]
    /\ UNCHANGED <<view, saveLog, chart, dash, loader, window, navigatorOnLine, pageVars,
                   aiVars, aggVars, lateVars, clsVars>>

\* window 'online' / 'offline' events: setIsOnline, then the effect
MapConnectivityChange ==
    /\ map.mounted
    /\ navigatorOnLine' = ~navigatorOnLine
    /\ LET r == MapEffect(map, [map EXCEPT !.isOnline = navigatorOnLine'])
       IN /\ InFlight(mapInits) + r.started <= MaxInFlight
          /\ map' = r.map
          /\ mapInits' = StartCall(mapInits, r.started, r.map, allMarkers)
          /\ selectorLog' = [event |-> IF navigatorOnLine' THEN "online" ELSE "offline",
                             attempts |-> r.started]
    /\ UNCHANGED <<view, saveLog, chart, dash, loader, window, pageVars, aiVars, aggVars, lateVars, clsVars>>

\* the Online / Offline button is part of the map panel and rendered only
\* when a snapshot exists: {offlineData && (<Button ...>)}
MapToggleRendered(m) == MapDisplay(m) \in {"fallback", "live"} /\ m.offlineData # NULL

\* the Online / Offline button: setUseOfflineMode(!useOfflineMode), then the
\* effect
MapToggleOfflineMode ==
    /\ MapToggleRendered(map)
    /\ LET r == MapEffect(map, [map EXCEPT !.useOfflineMode = ~@])
       IN /\ InFlight(mapInits) + r.started <= MaxInFlight
          /\ map' = r.map
          /\ mapInits' = StartCall(mapInits, r.started, r.map, allMarkers)
          /\ selectorLog' = [event |-> "toggle", attempts |-> r.started]
    /\ UNCHANGED <<view, saveLog, chart, dash, loader, window, navigatorOnLine, pageVars,
                   aiVars, aggVars, lateVars, clsVars>>

\* the "Use Offline Mode" button of the error panel
MapUseOfflineMode ==
    /\ MapDisplay(map) = "error"
    /\ LET r == MapEffect(map, [map EXCEPT !.useOfflineMode = TRUE])
       IN /\ map' = r.map
          /\ mapInits' = StartCall(mapInits, r.started, r.map, allMarkers)
          /\ selectorLog' = [event |-> "toggle", attempts |-> r.started]
    /\ UNCHANGED <<view, saveLog, chart, dash, loader, window, navigatorOnLine, pageVars,
                   aiVars, aggVars, lateVars, clsVars>>

\* the "Retry" button of the error panel: onClick={initializeMap}
MapRetry ==
    /\ MapDisplay(map) = "error"
    /\ LET r == initializeMap(map)
       IN /\ InFlight(mapInits) + r.started <= MaxInFlight
          /\ map' = r.map
          /\ mapInits' = StartCall(mapInits, r.started, r.map, allMarkers)
          /\ selectorLog' = [event |-> "retry", attempts |-> r.started]
    /\ UNCHANGED <<view, saveLog, chart, dash, loader, window, navigatorOnLine, pageVars,
                   aiVars, aggVars, lateVars, clsVars>>

\* the "Save Offline" button: downloadForOffline takes the centre and zoom of
\* the map instance, the current allMarkers and the time, and saves them
MapDownloadForOffline ==
    /\ MapDisplay(map) \in {"fallback", "live"}
    /\ map.isOnline /\ map.instance /\ ~map.useOfflineMode
    /\ \E stored \in BOOLEAN :
        LET offlineMapData == [center |-> map.mapView.center, zoom |-> map.mapView.zoom,
                               markers |-> allMarkers, lastUpdated |-> clock]
            s == saveOfflineData(map, offlineMapData, stored)
        IN /\ map' = s.map
           /\ window' = [window EXCEPT !.snapshot = s.snapshot]
           /\ saveLog' = s.log
    /\ UNCHANGED <<view, mapInits, selectorLog, chart, dash, loader, navigatorOnLine,
                   pageVars, aiVars, aggVars, lateVars, clsVars>>

\* unmount: the listeners are removed, the effect's cleanup removes the map
\* instance; initializations in flight and timers stay scheduled
MapUnmount ==
    /\ map.mounted
    /\ map' = IdleMap
    /\ selectorLog' = NoLog
    /\ UNCHANGED <<view, mapInits, saveLog, chart, dash, loader, window, navigatorOnLine,
                   pageVars, aiVars, aggVars, lateVars, clsVars>>

\* ------------------------------------------------------------ category chart
\* the isLoading prop: Home passes isLoading={false}
chartIsLoading == FALSE

\* CategoryChart's render ternary; "empty" is the "No reports submitted yet"
\* placeholder, "live" the <div ref={chartRef}>
ChartDisplay(c) ==
    IF ~c.mounted THEN "none"
    ELSE IF chartIsLoading THEN "loader"
    ELSE IF c.useOfflineMode THEN "fallback"
    ELSE IF c.chartError # NoError THEN "error"
    ELSE IF ~c.hasData THEN "empty"
    ELSE "live"

\* loadGoogleCharts, called with navigator.onLine = online
loadGoogleCharts(c, online) ==
    IF ~online
    THEN [chart |-> [c EXCEPT !.useOfflineMode = TRUE], loader |-> loader, started |-> 0]
    ELSE IF window.google
    THEN IF ~window.googleChartsLoaded
         THEN [chart |-> c, loader |-> [loader EXCEPT !.callbacks = @ + 1], started |-> 1]
         ELSE [chart |-> [c EXCEPT !.isGoogleChartsLoaded = TRUE, !.useOfflineMode = FALSE],
               loader |-> loader, started |-> 0]
    ELSE [chart |-> c, loader |-> [loader EXCEPT !.scripts = @ + 1], started |-> 1]

\* renderGoogleChart: nothing is done (not even setChartError(null)) unless
\* the library is loaded and the chart container is rendered; drawn tells
\* whether the draw succeeds or throws
renderGoogleChart(c, drawn) ==
    IF ~c.isGoogleChartsLoaded \/ ChartDisplay(c) # "live" \/ chartIsLoading THEN c
    ELSE IF drawn THEN [c EXCEPT !.chartError = NoError]
    ELSE [c EXCEPT !.chartError = ChartRenderErrorMessage, !.useOfflineMode = TRUE]

\* the effect on [categoryData, isGoogleChartsLoaded, isLoading, currentView,
\* analytics, useOfflineMode]
ChartEffect(old, new, dataChanged, drawn) ==
    IF /\ new.mounted
       /\ \/ dataChanged
          \/ old.isGoogleChartsLoaded # new.isGoogleChartsLoaded
          \/ old.useOfflineMode # new.useOfflineMode
       /\ ~new.useOfflineMode
    THEN renderGoogleChart(new, drawn)
    ELSE new

\* the event recorded for a step of the chart: a draw that threw is a failure
ChartEvent(before, after, event) ==
    IF after.chartError = ChartRenderErrorMessage /\ before.chartError # ChartRenderErrorMessage
    THEN "failure" ELSE event

\* mount: the load effect, then the draw effect
ChartMount ==
    /\ view = "none"
    /\ view' = "chart"
    /\ \E drawn \in BOOLEAN :
        LET c0 == [IdleChart EXCEPT !.mounted = TRUE]
            r == loadGoogleCharts(c0, navigatorOnLine)
        IN /\ chart' = ChartEffect(c0, r.chart, TRUE, drawn)
           /\ loader' = r.loader
           /\ selectorLog' = [event |-> ChartEvent(c0, chart', "mount"), attempts |-> r.started]
    /\ UNCHANGED <<map, mapInits, saveLog, dash, window, navigatorOnLine, pageVars, aiVars, aggVars, lateVars, clsVars>>

\* script.onload: charts.load and setOnLoadCallback
ChartScriptLoads ==
    /\ view = "chart"
    /\ loader.scripts > 0
    /\ loader' = [loader EXCEPT !.scripts = @ - 1, !.callbacks = @ + 1]
    /\ window' = [window EXCEPT !.google = TRUE]
    /\ UNCHANGED <<view, chart, selectorLog, map, mapInits, saveLog, dash, navigatorOnLine,
                   pageVars, aiVars, aggVars, lateVars, clsVars>>

\* script.onerror: setChartError, setUseOfflineMode(true)
ChartScriptError ==
    /\ view = "chart"
    /\ loader.scripts > 0
    /\ loader' = [loader EXCEPT !.scripts = @ - 1]
    /\ chart' = IF chart.mounted
                THEN [chart EXCEPT !.chartError = ChartLoadErrorMessage,
                                   !.useOfflineMode = TRUE]
                ELSE chart
    /\ selectorLog' = IF chart.mounted THEN [selectorLog EXCEPT !.event = "failure"]
                      ELSE selectorLog
    /\ UNCHANGED <<view, map, mapInits, saveLog, dash, window, navigatorOnLine, pageVars, aiVars, aggVars, lateVars, clsVars>>

\* the charts on-load callback: window.googleChartsLoaded = true,
\* setIsGoogleChartsLoaded(true), setUseOfflineMode(false), then the draw effect
ChartsOnLoadCallback ==
    /\ view = "chart"
    /\ loader.callbacks > 0
    /\ loader' = [loader EXCEPT !.callbacks = @ - 1]
    /\ window' = [window EXCEPT !.googleChartsLoaded = TRUE]
    /\ \E drawn \in BOOLEAN :
        /\ chart' = IF chart.mounted
                    THEN ChartEffect(chart, [chart EXCEPT !.isGoogleChartsLoaded = TRUE,
                                                          !.useOfflineMode = FALSE],
                                     FALSE, drawn)
                    ELSE chart
        /\ selectorLog' = [selectorLog EXCEPT !.event = ChartEvent(chart, chart', @)]
    /\ UNCHANGED <<view, map, mapInits, saveLog, dash, navigatorOnLine, pageVars, aiVars, aggVars, lateVars, clsVars>>

\* handleOnline: setUseOfflineMode(false), loadGoogleCharts();
\* handleOffline: setUseOfflineMode(true); then the draw effect
ChartConnectivityChange ==
    /\ chart.mounted
    /\ navigatorOnLine' = ~navigatorOnLine
    /\ \E drawn \in BOOLEAN :
        LET r == IF navigatorOnLine'
                 THEN loadGoogleCharts([chart EXCEPT !.useOfflineMode = FALSE], TRUE)
                 ELSE [chart |-> [chart EXCEPT !.useOfflineMode = TRUE], loader |-> loader,
                       started |-> 0]
        IN /\ Pending(r.loader) <= MaxInFlight
           /\ chart' = ChartEffect(chart, r.chart, FALSE, drawn)
           /\ loader' = r.loader
           /\ selectorLog' =
                [event |-> ChartEvent(chart, chart',
                                      IF navigatorOnLine' THEN "online" ELSE "offline"),
                 attempts |-> r.started]
    /\ UNCHANGED <<view, map, mapInits, saveLog, dash, window, pageVars, aiVars, aggVars, lateVars, clsVars>>

\* the "Switch to Offline Mode" button of the error panel
ChartSwitchToOfflineMode ==
    /\ ChartDisplay(chart) = "error"
    /\ chart' = [chart EXCEPT !.useOfflineMode = TRUE]
    /\ selectorLog' = [event |-> "toggle", attempts |-> 0]
    /\ UNCHANGED <<view, loader, map, mapInits, saveLog, dash, window, navigatorOnLine,
                   pageVars, aiVars, aggVars, lateVars, clsVars>>

\* the categoryData prop changes after a report was submitted (the counters
\* only grow, so hasData holds from then on), then the draw effect
ChartDataChanges ==
    /\ chart.mounted
    /\ \E drawn \in BOOLEAN :
        /\ chart' = ChartEffect(chart, [chart EXCEPT !.hasData = TRUE], TRUE, drawn)
        /\ selectorLog' = [selectorLog EXCEPT !.event = ChartEvent(chart, chart', @)]
    /\ UNCHANGED <<view, loader, map, mapInits, saveLog, dash, window, navigatorOnLine,
                   pageVars, aiVars, aggVars, lateVars, clsVars>>

\* unmount: the listeners are removed; scripts and callbacks stay pending
ChartUnmount ==
    /\ chart.mounted
    /\ chart' = IdleChart
    /\ selectorLog' = NoLog
    /\ UNCHANGED <<view, loader, map, mapInits, saveLog, dash, window, navigatorOnLine,
                   pageVars, aiVars, aggVars, lateVars, clsVars>>

\* ------------------------------------------------------ analytics dashboard
\* A mutant of DashDisplay: a recorded load failure is not consulted.
DashDisplayIgnoresError(d) ==
    IF ~d.mounted THEN "none"
    ELSE IF d.loading THEN "skeleton"
    ELSE IF d.googleChartsLoaded /\ ~d.isOffline THEN "live"
    ELSE "fallback"

\* AnalyticsComponent's render: the skeleton while the reports load, else
\* the chart containers or the Fallback charts
DashDisplay(d) ==
    IF ~d.mounted THEN "none"
    ELSE IF d.loading THEN "skeleton"
    ELSE IF d.googleChartsLoaded /\ ~d.isOffline /\ ~d.googleChartsError THEN "live"
    ELSE "fallback"

\* the effect on [isOffline]: loadGoogleCharts unless offline
DashLoadEffect(d) ==
    IF d.isOffline THEN [dash |-> d, loader |-> loader, started |-> 0]
    ELSE IF window.google
    THEN [dash |-> [d EXCEPT !.googleChartsLoaded = TRUE], loader |-> loader, started |-> 0]
    ELSE [dash |-> d, loader |-> [loader EXCEPT !.scripts = @ + 1], started |-> 1]

\* analyticsData.category of the reports the dashboard is given: the labels
\* with their counts, in the order the categories first occur
analyticsCategory == <<<<"Infrastructure", 2>>, <<"Environmental", 3>>>>

\* FallbackPieChart: one line per label with data.values[index]
FallbackPieChart(data) == [i \in 1..Len(data) |-> <<data[i][1], data[i][2]>>]

\* the effect on [googleChartsLoaded, analyticsData, drawGoogleChart] for the
\* category pie: rows are drawn only when the effect runs with the library
\* loaded, at least one label, and the container rendered (drawGoogleChart
\* returns when elementRef.current is null); a container rendered anew starts
\* empty, one that stays rendered keeps its drawing
DashDrawEffect(old, new, dataChanged) ==
    LET runs == dataChanged \/ old.googleChartsLoaded # new.googleChartsLoaded
    IN [new EXCEPT !.categoryPie =
            IF DashDisplay(new) # "live" THEN <<>>
            ELSE IF runs /\ new.googleChartsLoaded /\ Len(analyticsCategory) > 0
            THEN analyticsCategory
            ELSE IF DashDisplay(old) = "live" THEN old.categoryPie
            ELSE <<>>]

\* what the Category Distribution card shows
DashCategoryShown(d) ==
    IF DashDisplay(d) = "live" THEN d.categoryPie
    ELSE IF DashDisplay(d) = "fallback" THEN FallbackPieChart(analyticsCategory)
    ELSE <<>>

\* mount: isOffline starts as !navigator.onLine, then the load effect and the
\* draw effect
DashMount ==
    /\ view = "none"
    /\ view' = "dashboard"
    /\ \E loading \in BOOLEAN :
        LET r == DashLoadEffect([IdleDash EXCEPT !.mounted = TRUE,
                                                 !.isOffline = ~navigatorOnLine,
                                                 !.loading = loading])
        IN /\ dash' = DashDrawEffect(IdleDash, r.dash, TRUE)
           /\ loader' = r.loader
           /\ selectorLog' = [event |-> "mount", attempts |-> r.started]
    /\ UNCHANGED <<map, mapInits, saveLog, chart, window, navigatorOnLine, pageVars, aiVars, aggVars, lateVars, clsVars>>

\* script.onload: charts.load and setOnLoadCallback
DashScriptLoads ==
    /\ view = "dashboard"
    /\ loader.scripts > 0
    /\ loader' = [loader EXCEPT !.scripts = @ - 1, !.callbacks = @ + 1]
    /\ window' = [window EXCEPT !.google = TRUE]
    /\ UNCHANGED <<view, dash, selectorLog, map, mapInits, saveLog, chart, navigatorOnLine,
                   pageVars, aiVars, aggVars, lateVars, clsVars>>

\* script.onerror: setGoogleChartsError(true)
DashScriptError ==
    /\ view = "dashboard"
    /\ loader.scripts > 0
    /\ loader' = [loader EXCEPT !.scripts = @ - 1]
    /\ dash' = IF dash.mounted
               THEN DashDrawEffect(dash, [dash EXCEPT !.googleChartsError = TRUE], FALSE)
               ELSE dash
    /\ selectorLog' = IF dash.mounted THEN [selectorLog EXCEPT !.event = "failure"]
                      ELSE selectorLog
    /\ UNCHANGED <<view, map, mapInits, saveLog, chart, window, navigatorOnLine, pageVars, aiVars, aggVars, lateVars, clsVars>>

\* the charts on-load callback: setGoogleChartsLoaded(true), then the draw
\* effect
DashOnLoadCallback ==
    /\ view = "dashboard"
    /\ loader.callbacks > 0
    /\ loader' = [loader EXCEPT !.callbacks = @ - 1]
    /\ dash' = IF dash.mounted
               THEN DashDrawEffect(dash, [dash EXCEPT !.googleChartsLoaded = TRUE], FALSE)
               ELSE dash
    /\ UNCHANGED <<view, selectorLog, map, mapInits, saveLog, chart, window, navigatorOnLine,
                   pageVars, aiVars, aggVars, lateVars, clsVars>>

\* window 'online' / 'offline' events: setIsOffline, then the load effect and
\* the draw effect
DashConnectivityChange ==
    /\ dash.mounted
    /\ navigatorOnLine' = ~navigatorOnLine
    /\ LET r == DashLoadEffect([dash EXCEPT !.isOffline = ~navigatorOnLine'])
       IN /\ Pending(r.loader) <= MaxInFlight
          /\ dash' = DashDrawEffect(dash, r.dash, FALSE)
          /\ loader' = r.loader
          /\ selectorLog' = [event |-> IF navigatorOnLine' THEN "online" ELSE "offline",
                             attempts |-> r.started]
    /\ UNCHANGED <<view, map, mapInits, saveLog, chart, window, pageVars, aiVars, aggVars, lateVars, clsVars>>

\* the loading prop changes (the parent starts or ends loading the reports);
\* the reports prop may be a new array with it, then the draw effect
DashLoadingChanges ==
    /\ dash.mounted
    /\ \E reportsChanged \in BOOLEAN :
        dash' = DashDrawEffect(dash, [dash EXCEPT !.loading = ~@], reportsChanged)
    /\ UNCHANGED <<view, selectorLog, loader, map, mapInits, saveLog, chart, window, navigatorOnLine,
                   pageVars, aiVars, aggVars, lateVars, clsVars>>

\* unmount: the listeners are removed; scripts and callbacks stay pending
DashUnmount ==
    /\ dash.mounted
    /\ dash' = IdleDash
    /\ selectorLog' = NoLog
    /\ UNCHANGED <<view, loader, map, mapInits, saveLog, chart, window, navigatorOnLine,
                   pageVars, aiVars, aggVars, lateVars, clsVars>>

\* ------------------------------------------------------- aggregation engine
\* The data path of AnalyticsComponent (filteredReports, analyticsData,
\* kpiMetrics) and of CategoryChart (analytics). Time is counted in ticks of
\* half a day; a Date is a tick, its calendar day is Day(tick).
TicksPerDay == 2

Day(t) == t \div TicksPerDay

\* filters.status / filters.priority before the user has chosen one
Unset == "undefined"

\* useState<AnalyticsFilters>({ dateRange: '30', category: 'all' })
InitialFilters ==
    [dateRange |-> "30", category |-> "all", status |-> Unset, priority |-> Unset]

\* parseInt of the values the date range select offers
parseInt(s) ==
    CASE s = "7" -> 7
      [] s = "30" -> 30
      [] s = "90" -> 90
      [] s = "365" -> 365

\* A mutant of filteredReports: the status filter is applied only together
\* with a priority filter.
filteredReportsStatusWithPriority(reps, f, now) ==
    LET startDate == now - parseInt(f.dateRange) * TicksPerDay
        byDate == SelectSeq(reps, LAMBDA r : r.createdAt >= startDate)
        byCategory == IF f.category # "all"
                      THEN SelectSeq(byDate, LAMBDA r : r.category = f.category)
                      ELSE byDate
        byPriority == IF f.priority # Unset /\ f.priority # "all"
                      THEN SelectSeq(
                             IF f.status # Unset /\ f.status # "all"
                             THEN SelectSeq(byCategory, LAMBDA r : r.status = f.status)
                             ELSE byCategory,
                             LAMBDA r : r.priority = f.priority)
                      ELSE byCategory
    IN byPriority

\* filteredReports: the date range filter, then the category, status and
\* priority filters that are set
filteredReports(reps, f, now) ==
    LET startDate == now - parseInt(f.dateRange) * TicksPerDay
        byDate == SelectSeq(reps, LAMBDA r : r.createdAt >= startDate)
        byCategory == IF f.category # "all"
                      THEN SelectSeq(byDate, LAMBDA r : r.category = f.category)
                      ELSE byDate
        byStatus == IF f.status # Unset /\ f.status # "all"
                    THEN SelectSeq(byCategory, LAMBDA r : r.status = f.status)
                    ELSE byCategory
        byPriority == IF f.priority # Unset /\ f.priority # "all"
                      THEN SelectSeq(byStatus, LAMBDA r : r.priority = f.priority)
                      ELSE byStatus
    IN byPriority

\* one step of reduce((acc, report) => { acc[key] = (acc[key] || 0) + 1 }):
\* acc is kept as Object.keys(acc) and Object.values(acc). acc starts as {}:
\* for the name of an inherited property acc[key] is what Object.prototype
\* holds and the sum is a string, kept as the sequence of its parts; and
\* "__proto__" is an accessor whose setter ignores a string, so that acc
\* stays as it was.
CountKey(acc, key) ==
    LET own == {i \in 1..Len(acc.labels) : acc.labels[i] = key}
        at == CHOOSE i \in own : TRUE
        value == IF key \in ObjectPrototypeKeys
                 THEN Append(IF own # {} THEN acc.values[at] ELSE <<Inherited(key)>>, "1")
                 ELSE (IF own # {} THEN acc.values[at] ELSE 0) + 1
    IN IF key = "__proto__" THEN acc
       ELSE IF own # {} THEN [acc EXCEPT !.values[at] = value]
       ELSE [labels |-> Append(acc.labels, key), values |-> Append(acc.values, value)]

RECURSIVE reduceCounts(_, _)
reduceCounts(acc, keys) ==
    IF keys = <<>> THEN acc ELSE reduceCounts(CountKey(acc, Head(keys)), Tail(keys))

\* the {} the reduce starts from
NoCounts == [labels |-> <<>>, values |-> <<>>]

\* `${report.location.city}, ${report.location.state}`
LocationKey(r) == <<r.location.city, ", ", r.location.state>>

\* A mutant of trendsData: the loop runs over the last six days only and
\* leaves out today.
trendsDataWithoutToday(filtered, now) ==
    [j \in 1..7 |->
        LET date == Day(now) - (7 - j) - 1
        IN [date |-> date,
            count |-> Len(SelectSeq(filtered, LAMBDA r : Day(r.createdAt) = date))]]

\* for (let i = 6; i >= 0; i--): the reports of the calendar day i days ago
trendsData(filtered, now) ==
    [j \in 1..7 |->
        LET date == Day(now) - (7 - j)
        IN [date |-> date,
            count |-> Len(SelectSeq(filtered, LAMBDA r : Day(r.createdAt) = date))]]

analyticsData(filtered, now) ==
    [category |-> reduceCounts(NoCounts, [i \in 1..Len(filtered) |-> filtered[i].category]),
     priority |-> reduceCounts(NoCounts, [i \in 1..Len(filtered) |-> filtered[i].priority]),
     status |-> reduceCounts(NoCounts, [i \in 1..Len(filtered) |-> filtered[i].status]),
     location |-> reduceCounts(NoCounts, [i \in 1..Len(filtered) |-> LocationKey(filtered[i])]),
     trends |-> trendsData(filtered, now)]

\* Math.round(x / y * 100) for y > 0
RoundedPercent(x, y) == (200 * x + y) \div (2 * y)

\* kpiMetrics: value of 'Total Reports', 'Open Reports', 'Resolution Rate'
\* and 'Critical Issues'; change is totalChange as a fraction <<n, d>>
kpiMetrics(filtered, reps, f, now) ==
    LET totalReports == Len(filtered)
        openReports == Len(SelectSeq(filtered, LAMBDA r : r.status = "Open"))
        resolvedReports == Len(SelectSeq(filtered, LAMBDA r : r.status = "Resolved"))
        criticalReports == Len(SelectSeq(filtered, LAMBDA r : r.priority = "Critical"))
        periodDays == parseInt(f.dateRange)
        prevPeriodStart == now - periodDays * 2 * TicksPerDay
        prevPeriodEnd == now - periodDays * TicksPerDay
        prevPeriodReports ==
            SelectSeq(reps, LAMBDA r : r.createdAt >= prevPeriodStart
                                       /\ r.createdAt <= prevPeriodEnd)
        prev == Len(prevPeriodReports)
    IN [total |-> totalReports,
        open |-> openReports,
        resolutionRate |-> IF totalReports > 0
                           THEN RoundedPercent(resolvedReports, totalReports) ELSE 0,
        critical |-> criticalReports,
        change |-> IF prev # 0 THEN <<(totalReports - prev) * 100, prev>> ELSE <<0, 1>>,
        trend |-> IF prev # 0 /\ totalReports > prev THEN "up"
                  ELSE IF prev # 0 /\ totalReports < prev THEN "down"
                  ELSE "stable"]

\* the three useMemo values of one render
DashAggregate(reps, f, now) ==
    LET filtered == filteredReports(reps, f, now)
    IN [filteredReports |-> filtered,
        analyticsData |-> analyticsData(filtered, now),
        kpiMetrics |-> kpiMetrics(filtered, reps, f, now)]

\* the reports the dashboard can be given: created now, 6.5 days ago and
\* 7.5 days ago
ReportAges == {0, 13, 15}

\* category: string -- one of the form's labels and the name of a property
\* every object inherits
DashCategories == {"Infrastructure", "__proto__"}

Kochi == [city |-> "Kochi", state |-> "Kerala"]

Thrissur == [city |-> "Thrissur", state |-> "Kerala"]

DashReport(now) ==
    {r \in [category : DashCategories,
            priority : {"High", "Critical"},
            status : {"Open", "Resolved"},
            location : {Kochi, Thrissur},
            createdAt : {now - a : a \in ReportAges}] :
        r.location = IF (r.priority = "High") = (r.status = "Open") THEN Kochi ELSE Thrissur}

\* the values the four selects offer (of the date ranges, two)
FilterValues(key) ==
    CASE key = "dateRange" -> {"7", "30"}
      [] key = "category" ->
            {"all"} \cup {dashReports[i].category : i \in 1..Len(dashReports)}
      [] key = "status" -> {"all", "Open"}
      [] key = "priority" -> {"all", "Critical"}

\* handleFilterChange: setFilters({ ...filters, [key]: value }); the memos
\* are computed anew
HandleFilterChange ==
    /\ view = "dashboard"
    /\ \E key \in {"dateRange", "category", "status", "priority"} :
        \E value \in FilterValues(key) :
            /\ filters' = [filters EXCEPT ![key] = value]
            /\ dashMemo' = DashAggregate(dashReports, filters', dashNow)
    /\ UNCHANGED <<dashReports, dashNow, chartAnalytics, pageVars, navigatorOnLine, aiVars,
                   clsVars, viewVars, lateVars>>

\* the parent passes a reports array with one more report
DashReportsChange ==
    /\ view = "dashboard"
    /\ Len(dashReports) < MaxDashReports
    /\ \E r \in DashReport(dashNow) :
        /\ dashReports' = Append(dashReports, r)
        /\ dashMemo' = DashAggregate(dashReports', filters, dashNow)
    /\ UNCHANGED <<filters, dashNow, chartAnalytics, pageVars, navigatorOnLine, aiVars,
                   clsVars, viewVars, lateVars>>

\* the parent passes a new array with the same reports: the memos are
\* computed again
DashRecompute ==
    /\ view = "dashboard"
    /\ dashMemo' = DashAggregate(dashReports, filters, dashNow)
    /\ UNCHANGED <<dashReports, filters, dashNow, chartAnalytics, pageVars, navigatorOnLine,
                   aiVars, clsVars, viewVars, lateVars>>

\* Object.entries(categoryData): the keys of Home's initial object in their
\* order, then a key added later
CategoryOrder == <<"Safety Issue", "Infrastructure", "Environmental", "Traffic", "Other">>

ObjectEntries(cd) ==
    LET known == SelectSeq(CategoryOrder, LAMBDA c : c \in DOMAIN cd)
        added == DOMAIN cd \ {CategoryOrder[i] : i \in 1..Len(CategoryOrder)}
        keys == IF added = {} THEN known ELSE Append(known, CHOOSE c \in added : TRUE)
    IN [i \in 1..Len(keys) |-> [category |-> keys[i], count |-> cd[keys[i]]]]

RECURSIVE SumCounts(_)
SumCounts(entries) ==
    IF entries = <<>> THEN 0 ELSE Head(entries).count + SumCounts(Tail(entries))

\* reduce((max, [category, count]) => count > max.count ? { category, count } : max)
RECURSIVE MostCommon(_, _)
MostCommon(max, entries) ==
    IF entries = <<>> THEN max
    ELSE MostCommon(IF Head(entries).count > max.count THEN Head(entries) ELSE max,
                    Tail(entries))

\* Math.floor(Math.random() * total / 3): what the seven draws can give
RandomThird(total) == IF total = 0 THEN {0} ELSE 0..((total - 1) \div 3)

\* A mutant of CategoryChartAnalytics: the total is read off the trend data.
CategoryChartAnalyticsFromTrend(cd, randoms) ==
    LET entries == ObjectEntries(cd)
        total == SumCounts(entries)
    IN [totalReports |-> randoms[7] + total \div 7 + total,
        mostCommonCategory |-> MostCommon([category |-> "None", count |-> 0], entries).category,
        trendData |-> [i \in 1..7 |-> [date |-> Day(dashNow) - (7 - i),
                                        count |-> randoms[i] + total \div 7]]]

\* the effect on [categoryData]: total, most common category and the mock
\* trend data, whose counts are drawn with Math.random
CategoryChartAnalytics(cd, randoms) ==
    LET entries == ObjectEntries(cd)
        total == SumCounts(entries)
    IN [totalReports |-> total,
        mostCommonCategory |-> MostCommon([category |-> "None", count |-> 0], entries).category,
        trendData |-> [i \in 1..7 |-> [date |-> Day(dashNow) - (7 - i),
                                        count |-> randoms[i] + total \div 7]]]

\* the categories of the reports counted for the chart: two of the form's
\* labels and a string outside them
ChartCategories == {"Safety Issue", "Traffic", "Pets"}

\* handleReportSubmit's setCategoryData: one more report of a category, and
\* the effect runs
ChartCategoryDataChanges ==
    /\ view = "chart"
    /\ SumCounts(ObjectEntries(categoryData)) < MaxChartReports
    /\ \E c \in ChartCategories :
        /\ categoryData' = CountReport(categoryData, c)
        /\ \E randoms \in [1..7 -> RandomThird(SumCounts(ObjectEntries(categoryData')))] :
            chartAnalytics' = CategoryChartAnalytics(categoryData', randoms)
    /\ UNCHANGED <<dashReports, filters, dashNow, dashMemo, clock, newReports, reports, allMarkers,
                   navigatorOnLine, aiVars, clsVars, viewVars, lateVars>>

\* the effect runs again on a categoryData with the same counts
ChartAnalyticsRerun ==
    /\ view = "chart"
    /\ \E randoms \in [1..7 -> RandomThird(SumCounts(ObjectEntries(categoryData)))] :
        chartAnalytics' = CategoryChartAnalytics(categoryData, randoms)
    /\ UNCHANGED <<dashReports, filters, dashNow, dashMemo, pageVars, navigatorOnLine,
                   aiVars, clsVars, viewVars, lateVars>>

\* useState<AnalyticsData>({ totalReports: 0, mostCommonCategory: 'None', trendData: [] })
NoAnalytics == [totalReports |-> 0, mostCommonCategory |-> "None", trendData |-> <<>>]

\* ----------------------------------------------- the report form and hooks
\* errors of ReportForm: '' stands for a key that is absent or empty
NoErrors == [location |-> "", description |-> "", category |-> "", submit |-> ""]

\* no handleSubmit in flight
NoSubmit ==
    [phase |-> "none", location |-> <<>>, description |-> <<>>, category |-> "",
     coordinates |-> NULL, finalLocationName |-> <<>>]

\* ReportForm after its first render
IdleForm ==
    [location |-> <<>>, description |-> <<>>, category |-> "", geocodedLocation |-> NULL,
     isSubmitting |-> FALSE, errors |-> NoErrors, call |-> NoSubmit]

NoFormLog == [event |-> "none", calls |-> 0]

\* the clients that show the report
Clients == {"a", "b"}

\* the report document as it is stored when the clients first load it
StoredReport == [upvotes |-> 2, downvotes |-> 1]

\* every client has loaded the report; no vote is under way
NoVotes ==
    [stored |-> StoredReport,
     data |-> [c \in Clients |-> StoredReport],
     calls |-> <<>>,
     completed |-> [upvotes |-> 0, downvotes |-> 0]]

\* useOfflineSupport after its first render while online; added counts the
\* addPendingOperation calls, executed lists the operations called
IdleHook ==
    [isOnline |-> TRUE, pendingOperations |-> <<>>, syncs |-> <<>>,
     added |-> 0, executed |-> <<>>]

\* no form, vote or pending operation under observation
LateIdle ==
    /\ form = IdleForm
    /\ formLog = NoFormLog
    /\ votes = NoVotes
    /\ hook = IdleHook

\* no dashboard and no chart data path under observation
AnalyticsIdle ==
    /\ dashReports = <<>>
    /\ filters = InitialFilters
    /\ dashNow = 0
    /\ dashMemo = NULL
    /\ chartAnalytics = NoAnalytics
    /\ LateIdle

\* nothing is mounted; what earlier visits left behind is in window
ViewsIdle ==
    /\ view = "none"
    /\ map = IdleMap
    /\ mapInits = NoInits
    /\ chart = IdleChart
    /\ dash = IdleDash
    /\ loader = NoLoads
    /\ selectorLog = NoLog
    /\ saveLog = NoSave
    /\ AnalyticsIdle

WindowAfterNoVisit ==
    [google |-> FALSE, googleChartsLoaded |-> FALSE, leaflet |-> FALSE, snapshot |-> NoItem]

InitViews ==
    /\ ViewsIdle
    /\ navigatorOnLine \in BOOLEAN
    /\ window \in {w \in [google : BOOLEAN, googleChartsLoaded : BOOLEAN,
                         leaflet : BOOLEAN,
                         snapshot : {NoItem, JSONstringify(EarlierSnapshot)}] :
                      w.googleChartsLoaded => w.google}
    /\ clock = 0
    /\ newReports = <<>>
    /\ reports = <<>>
    /\ categoryData = [c \in FormCategories |-> 0]
    /\ allMarkers = sampleMarkers
    /\ assistant = NULL
    /\ aiCall = NoCall
    /\ aiMounted = FALSE
    /\ previousRun = NoPreviousRun
    /\ clsInput = NoInput
    /\ clsOutput = NULL

NextViews ==
    \/ MapMount \/ MapImportResolves \/ MapCssWaitEnds \/ MapFallbackTimerFires
    \/ MapConnectivityChange \/ MapToggleOfflineMode \/ MapUseOfflineMode
    \/ MapRetry \/ MapDownloadForOffline \/ MapUnmount
    \/ ChartMount \/ ChartScriptLoads \/ ChartScriptError \/ ChartsOnLoadCallback
    \/ ChartConnectivityChange \/ ChartSwitchToOfflineMode \/ ChartDataChanges
    \/ ChartUnmount
    \/ DashMount \/ DashScriptLoads \/ DashScriptError \/ DashOnLoadCallback
    \/ DashConnectivityChange \/ DashLoadingChanges \/ DashUnmount

SpecViews == InitViews /\ [][NextViews]_vars


InitAI ==
    /\ ViewsIdle
    /\ window = WindowAfterNoVisit
    /\ navigatorOnLine \in BOOLEAN
    /\ assistant = [inputText |-> <<>>, isLoading |-> FALSE, result |-> NULL,
                    error |-> NoError, isOnline |-> navigatorOnLine,
                    useOfflineFallback |-> FALSE]
    /\ aiCall = NoCall
    /\ aiMounted = TRUE
    /\ previousRun = NoPreviousRun
    /\ clsInput = NoInput
    /\ clsOutput = NULL
    /\ clock = 0
    /\ newReports = <<>>
    /\ reports = <<>>
    /\ categoryData = [c \in FormCategories |-> 0]
    /\ allMarkers = sampleMarkers

NextAI ==
    \/ AIConnectivityChange
    \/ SetInputText
    \/ HandleClassify
    \/ OfflineDelayFires
    \/ OnlineDelayFires
    \/ FallbackDelayFires
    \/ toggleFallbackMode
    \/ AIUnmount

SpecAI == InitAI /\ [][NextAI]_vars

\* a started timer fires
FairSpecAI ==
    /\ SpecAI
    /\ WF_vars(OfflineDelayFires)
    /\ WF_vars(OnlineDelayFires)
    /\ WF_vars(FallbackDelayFires)

InitClassify ==
    /\ ViewsIdle
    /\ window = WindowAfterNoVisit
    /\ clsInput \in [text : Texts, table : {"none"}]
    /\ clsOutput = NULL
    /\ navigatorOnLine = TRUE
    /\ assistant = NULL
    /\ aiCall = NoCall
    /\ aiMounted = FALSE
    /\ previousRun = NoPreviousRun
    /\ clock = 0
    /\ newReports = <<>>
    /\ reports = <<>>
    /\ categoryData = [c \in FormCategories |-> 0]
    /\ allMarkers = sampleMarkers

NextClassify == ClassifyOffline \/ ClassifyOnline

SpecClassify == InitClassify /\ [][NextClassify]_vars

\* ------------------------------------------------------------ the page
\* Home.handleReportSubmit: append to newReports, bump the category counter; the
\* re-render hands newReports to CivicMap, whose [newReports] effect recomputes
\* allMarkers before any other event is handled.
\* Home.handleReportSubmit with the effects of CivicMap that follow it: the
\* effect on [newReports] rebuilds allMarkers, the effect on [allMarkers,
\* newReports] moves a live map instance to the latest report
\* newReport = { id: Date.now().toString(), ...reportData, timestamp: new Date() }
\* (the fields of reportData are kept together as data)
ReportOf(reportData, now) == [id |-> now, data |-> reportData, timestamp |-> now]

SubmitReport(reportData) ==
    /\ reports' = Append(reports, ReportOf(reportData, clock))
    /\ newReports' = Append(newReports, reportData)
    /\ categoryData' = CountReport(categoryData, reportData.category)
    /\ allMarkers' = MarkersFor(newReports', clock)
    /\ map' = IF /\ map.instance /\ ~map.useOfflineMode /\ map.isOnline
                 /\ reportData.coordinates # NULL
              THEN [map EXCEPT !.mapView =
                        [center |-> <<reportData.coordinates.lat,
                                      reportData.coordinates.lon>>,
                         zoom |-> 14]]
              ELSE map
    /\ UNCHANGED <<clock, navigatorOnLine, aiVars, aggVars, clsVars, view, mapInits, chart, dash,
                   loader, window, selectorLog, saveLog>>

HandleReportSubmit ==
    /\ Len(newReports) < MaxReports
    /\ \E reportData \in NewReport : SubmitReport(reportData)
    /\ UNCHANGED lateVars

Tick ==
    /\ clock < MaxClock
    /\ clock' = clock + 1
    /\ UNCHANGED <<newReports, reports, categoryData, allMarkers, navigatorOnLine, aiVars, aggVars, lateVars, clsVars, viewVars>>

Init ==
    /\ ViewsIdle
    /\ window = WindowAfterNoVisit
    /\ clock = 0
    /\ newReports = <<>>
    /\ reports = <<>>
    /\ categoryData = [c \in FormCategories |-> 0]
    /\ allMarkers = sampleMarkers
    /\ navigatorOnLine = TRUE
    /\ assistant = NULL
    /\ aiCall = NoCall
    /\ aiMounted = FALSE
    /\ previousRun = NoPreviousRun
    /\ clsInput = NoInput
    /\ clsOutput = NULL

Next == HandleReportSubmit \/ Tick

Spec == Init /\ [][Next]_vars

\* ------------------------------------------------- the map and its snapshot
\* The map with reports arriving and time passing while it is mounted.
MapReports ==
    {r \in NewReport :
        r.category = "Traffic" /\ r.coordinates \in {NULL, [lat |-> 85000, lon |-> 770000]}}

HandleReportSubmitOnMap ==
    /\ map.mounted
    /\ Len(newReports) < MaxMapReports
    /\ \E reportData \in MapReports : SubmitReport(reportData)
    /\ UNCHANGED lateVars

\* the application is started again after the page was left: Home and
\* CivicMap start from their initial state, the calls and timers of the
\* earlier page are gone, localStorage is what it was; then the mount effects
MapReload ==
    /\ view = "map"
    /\ ~map.mounted
    /\ newReports' = <<>>
    /\ reports' = <<>>
    /\ categoryData' = [c \in FormCategories |-> 0]
    /\ allMarkers' = MarkersFor(newReports', clock)
    /\ LET r == initializeMap(loadOfflineData([IdleMap EXCEPT !.mounted = TRUE,
                                                              !.isOnline = navigatorOnLine]))
       IN /\ map' = r.map
          /\ mapInits' = StartCall(NoInits, r.started, r.map, allMarkers')
          /\ selectorLog' = [event |-> "mount", attempts |-> r.started]
    /\ UNCHANGED <<clock, view, saveLog, chart, dash, loader, window, navigatorOnLine,
                   aiVars, aggVars, lateVars, clsVars>>

InitSnapshot ==
    /\ InitViews
    /\ ~window.google

NextSnapshot ==
    \/ MapMount \/ MapImportResolves \/ MapCssWaitEnds \/ MapFallbackTimerFires
    \/ MapConnectivityChange \/ MapToggleOfflineMode \/ MapUseOfflineMode
    \/ MapRetry \/ MapDownloadForOffline \/ MapUnmount
    \/ HandleReportSubmitOnMap \/ MapReload \/ Tick

SpecSnapshot == InitSnapshot /\ [][NextSnapshot]_vars

\* ---------------------------------------------- the aggregation data path
\* the dashboard right after its first render, in the morning or in the
\* evening of a day, or the chart before its first effect
InitAnalytics ==
    /\ view \in {"dashboard", "chart"}
    /\ dashReports = <<>>
    /\ filters = InitialFilters
    /\ dashNow \in {1000, 1001}
    /\ dashMemo = DashAggregate(dashReports, filters, dashNow)
    /\ chartAnalytics = NoAnalytics
    /\ LateIdle
    /\ map = IdleMap
    /\ mapInits = NoInits
    /\ chart = IdleChart
    /\ dash = IdleDash
    /\ loader = NoLoads
    /\ selectorLog = NoLog
    /\ saveLog = NoSave
    /\ window = WindowAfterNoVisit
    /\ navigatorOnLine = TRUE
    /\ clock = 0
    /\ newReports = <<>>
    /\ reports = <<>>
    /\ categoryData = [c \in FormCategories |-> 0]
    /\ allMarkers = sampleMarkers
    /\ assistant = NULL
    /\ aiCall = NoCall
    /\ aiMounted = FALSE
    /\ previousRun = NoPreviousRun
    /\ clsInput = NoInput
    /\ clsOutput = NULL

NextAnalytics ==
    \/ HandleFilterChange \/ DashReportsChange \/ DashRecompute
    \/ ChartCategoryDataChanges \/ ChartAnalyticsRerun

SpecAnalytics == InitAnalytics /\ [][NextAnalytics]_vars

\* ------------------------------------------------------------ the report form
\* ReportForm on the page: what the user types and chooses, handleSubmit with
\* its two awaits, and Home's handleReportSubmit as onSubmit.
Rep(c, n) == [i \in 1..n |-> c]

\* what the user can type as a location: nothing, a blank, one letter, and a
\* name of two letters behind a blank
FormLocations == {<<>>, <<" ">>, <<"k">>, <<" ", "k", "o">>}

\* what the user can type as a description: nothing, nine letters between
\* blanks, and ten letters
FormDescriptions == {<<>>, <<" ">> \o Rep("d", 9) \o <<" ">>, Rep("d", 10)}

\* <SelectItem value=...>: the values the category select can set
FormSelectValues == {"safety", "infrastructure", "environmental", "traffic", "other"}

\* the location the geocoding service answers with
FoundLocation == [lat |-> 100000, lon |-> 760000, name |-> <<"K", "o", "c", "h", "i">>]

\* findBestLocationInKerala: null for a query of less than 2 characters, and
\* otherwise what the service finds, or null
findBestLocationInKerala(query) ==
    IF Len(query) < 2 THEN {NULL} ELSE {NULL, FoundLocation}

\* validateForm: newErrors
validateForm(f) ==
    [location |-> IF trim(f.location) = <<>> THEN "Location is required" ELSE "",
     description |-> IF trim(f.description) = <<>> THEN "Description is required"
                     ELSE IF Len(trim(f.description)) < 10
                     THEN "Description must be at least 10 characters" ELSE "",
     category |-> IF f.category = "" THEN "Category is required" ELSE "",
     submit |-> ""]

\* handleSubmit up to its first await (or its return)
StartSubmit(f) ==
    LET newErrors == validateForm(f)
        coordinates == IF f.geocodedLocation # NULL
                       THEN [lat |-> f.geocodedLocation.lat, lon |-> f.geocodedLocation.lon]
                       ELSE NULL
        finalLocationName == IF f.geocodedLocation # NULL /\ f.geocodedLocation.name # <<>>
                             THEN f.geocodedLocation.name ELSE trim(f.location)
        call == [phase |-> "sending", location |-> f.location,
                 description |-> f.description, category |-> f.category,
                 coordinates |-> coordinates, finalLocationName |-> finalLocationName]
    IN IF newErrors # NoErrors
       THEN [f EXCEPT !.errors = newErrors]
       ELSE IF f.geocodedLocation = NULL /\ trim(f.location) # <<>>
       THEN [f EXCEPT !.isSubmitting = TRUE,
                      !.errors = [NoErrors EXCEPT !.submit = "Finding location coordinates..."],
                      !.call = [call EXCEPT !.phase = "geocoding"]]
       ELSE IF coordinates = NULL
       THEN [f EXCEPT !.isSubmitting = FALSE,
                      !.errors = [NoErrors EXCEPT
                                    !.location = "Unable to determine location coordinates"]]
       ELSE [f EXCEPT !.isSubmitting = TRUE, !.errors = NoErrors, !.call = call]

\* A mutant of AfterGeocoding: a location that was not found does not end
\* handleSubmit.
AfterGeocodingGoesOn(f, foundLocation) ==
    IF foundLocation # NULL
    THEN [f EXCEPT !.geocodedLocation = foundLocation,
                   !.call = [@ EXCEPT !.phase = "sending",
                                      !.coordinates = [lat |-> foundLocation.lat,
                                                       lon |-> foundLocation.lon],
                                      !.finalLocationName = foundLocation.name]]
    ELSE [f EXCEPT !.errors = [@ EXCEPT !.location = "Could not find in Kerala"],
                   !.call = [@ EXCEPT !.phase = "sending"]]

\* handleSubmit from the answer of findBestLocationInKerala to the second
\* await (or its return)
AfterGeocoding(f, foundLocation) ==
    IF foundLocation # NULL
    THEN [f EXCEPT !.geocodedLocation = foundLocation,
                   !.call = [@ EXCEPT !.phase = "sending",
                                      !.coordinates = [lat |-> foundLocation.lat,
                                                       lon |-> foundLocation.lon],
                                      !.finalLocationName = foundLocation.name]]
    ELSE [f EXCEPT !.errors = [@ EXCEPT !.location = "Could not find in Kerala"],
                   !.isSubmitting = FALSE,
                   !.call = NoSubmit]

\* formData of handleSubmit
FormData(call) ==
    [location |-> call.finalLocationName, coordinates |-> call.coordinates,
     description |-> trim(call.description), category |-> call.category]

\* handleLocationInput
HandleLocationInput ==
    /\ \E value \in FormLocations :
        form' = [form EXCEPT !.location = value, !.geocodedLocation = NULL,
                             !.errors = [@ EXCEPT !.location = ""]]
    /\ formLog' = [formLog EXCEPT !.event = "edit"]
    /\ UNCHANGED <<votes, hook, pageVars, navigatorOnLine, aiVars, aggVars, clsVars, viewVars>>

\* the description Textarea's onChange
SetDescription ==
    /\ \E value \in FormDescriptions :
        form' = [form EXCEPT !.description = value, !.errors = [@ EXCEPT !.description = ""]]
    /\ formLog' = [formLog EXCEPT !.event = "edit"]
    /\ UNCHANGED <<votes, hook, pageVars, navigatorOnLine, aiVars, aggVars, clsVars, viewVars>>

\* the category Select's onValueChange
SetCategory ==
    /\ \E value \in FormSelectValues :
        form' = [form EXCEPT !.category = value, !.errors = [@ EXCEPT !.category = ""]]
    /\ formLog' = [formLog EXCEPT !.event = "edit"]
    /\ UNCHANGED <<votes, hook, pageVars, navigatorOnLine, aiVars, aggVars, clsVars, viewVars>>

\* the form is submitted (the submit button is disabled while isSubmitting)
HandleSubmit ==
    /\ ~form.isSubmitting
    /\ Len(newReports) < MaxFormReports
    /\ form' = StartSubmit(form)
    /\ formLog' = [event |-> IF form'.call.phase = "none" THEN "invalid" ELSE "start",
                   calls |-> 0]
    /\ UNCHANGED <<votes, hook, pageVars, navigatorOnLine, aiVars, aggVars, clsVars, viewVars>>

\* await findBestLocationInKerala(location.trim()) ends
GeocodingResolves ==
    /\ form.call.phase = "geocoding"
    /\ \E foundLocation \in findBestLocationInKerala(trim(form.call.location)) :
        /\ form' = AfterGeocoding(form, foundLocation)
        /\ formLog' = [formLog EXCEPT !.event = IF foundLocation = NULL THEN "miss" ELSE "found"]
    /\ UNCHANGED <<votes, hook, pageVars, navigatorOnLine, aiVars, aggVars, clsVars, viewVars>>

\* the simulated API call ends: onSubmit, that is Home's handleReportSubmit,
\* then the form is reset and, in finally, isSubmitting is false
SendDelayEnds ==
    /\ form.call.phase = "sending"
    /\ SubmitReport(FormData(form.call))
    /\ form' = IdleForm
    /\ formLog' = [event |-> "sent", calls |-> formLog.calls + 1]
    /\ UNCHANGED <<votes, hook>>

InitForm == Init

NextForm ==
    \/ HandleLocationInput \/ SetDescription \/ SetCategory
    \/ HandleSubmit \/ GeocodingResolves \/ SendDelayEnds

SpecForm == InitForm /\ [][NextForm]_vars

\* ------------------------------------------------- the page and its reports
\* Home with the reports the form hands to onSubmit, one after the other.
\* formData of a handleSubmit that reached onSubmit
FormOutputs ==
    [location : {FoundLocation.name},
     coordinates : {[lat |-> FoundLocation.lat, lon |-> FoundLocation.lon]},
     description : {Rep("d", 10)},
     category : FormSelectValues]

HandleFormReport ==
    /\ Len(newReports) < MaxPageReports
    /\ \E reportData \in FormOutputs : SubmitReport(reportData)
    /\ UNCHANGED lateVars

\* A mutant of RecentReports: the last three reports, oldest first.
RecentReportsOldestFirst(list) ==
    SubSeq(list, IF Len(list) > 3 THEN Len(list) - 2 ELSE 1, Len(list))

\* reports.slice(-3).reverse()
RecentReports(list) ==
    LET slice == SubSeq(list, IF Len(list) > 3 THEN Len(list) - 2 ELSE 1, Len(list))
    IN [i \in 1..Len(slice) |-> slice[Len(slice) + 1 - i]]

\* the Recent Reports panel: nothing for 'No reports submitted yet'
RecentReportsPanel == RecentReports(reports)

InitPage == Init

NextPage == HandleFormReport \/ Tick

SpecPage == InitPage /\ [][NextPage]_vars

\* ----------------------------------------------------------------- the votes
\* useCivicReports on two clients over one stored report. upvoteReport and
\* downvoteReport read `data`, a name useCivicReports does not bind (it binds
\* useFirestore's data as `reports`); it is modelled as that data, the
\* client's copy of the report as of its last getAll.
\* upvoteReport / downvoteReport up to the await: update(reportId,
\* { [field]: report[field] + 1 }) with the report found in data
VoteCall(v, c, field) == [client |-> c, field |-> field, value |-> v.data[c][field] + 1]

StartedVotes == Len(votes.calls) + votes.completed.upvotes + votes.completed.downvotes

UpvoteReport ==
    /\ StartedVotes < MaxVotes
    /\ \E c \in Clients :
        votes' = [votes EXCEPT !.calls = Append(@, VoteCall(votes, c, "upvotes"))]
    /\ UNCHANGED <<form, formLog, hook, pageVars, navigatorOnLine, aiVars, aggVars, clsVars,
                   viewVars>>

DownvoteReport ==
    /\ StartedVotes < MaxVotes
    /\ \E c \in Clients :
        votes' = [votes EXCEPT !.calls = Append(@, VoteCall(votes, c, "downvotes"))]
    /\ UNCHANGED <<form, formLog, hook, pageVars, navigatorOnLine, aiVars, aggVars, clsVars,
                   viewVars>>

\* useFirestore.update: updateDoc(docRef, { ...data, updatedAt }) writes the
\* fields it is given; the call is completed
UpdateDocCompletes ==
    /\ \E i \in 1..Len(votes.calls) :
        LET call == votes.calls[i]
        IN votes' = [votes EXCEPT !.stored[call.field] = call.value,
                                  !.calls = Without(@, i),
                                  !.completed[call.field] = @ + 1]
    /\ UNCHANGED <<form, formLog, hook, pageVars, navigatorOnLine, aiVars, aggVars, clsVars,
                   viewVars>>

\* useFirestore.getAll on a client: getDocs, then setData(results)
GetAll ==
    /\ \E c \in Clients :
        /\ votes.data[c] # votes.stored
        /\ votes' = [votes EXCEPT !.data[c] = votes.stored]
    /\ UNCHANGED <<form, formLog, hook, pageVars, navigatorOnLine, aiVars, aggVars, clsVars,
                   viewVars>>

InitVotes == Init

NextVotes == UpvoteReport \/ DownvoteReport \/ UpdateDocCompletes \/ GetAll

SpecVotes == InitVotes /\ [][NextVotes]_vars

\* ------------------------------------------------------ the offline support
\* useOfflineSupport. Operations are numbered as they are added. A sync in
\* flight is the list syncPendingOperations captured and the position of the
\* operation it awaits.
\* the effect on [isOnline, syncPendingOperations] after a render in which
\* isOnline or pendingOperations changed: syncPendingOperations() up to its
\* first await, which calls the first operation
SyncEffect(h) ==
    IF h.isOnline /\ Len(h.pendingOperations) > 0
    THEN [h EXCEPT !.syncs = Append(@, [operations |-> h.pendingOperations, at |-> 1]),
                   !.executed = Append(@, h.pendingOperations[1])]
    ELSE h

\* addPendingOperation: setPendingOperations(prev => [...prev, operation])
\* the syncs in flight and the operation calls the model follows
WithinHookBounds(h) == Len(h.syncs) <= MaxSyncs /\ Len(h.executed) <= MaxExecuted

AddPendingOperation ==
    /\ hook.added < MaxOperations
    /\ hook' = SyncEffect([hook EXCEPT !.added = @ + 1,
                                       !.pendingOperations = Append(@, hook.added + 1)])
    /\ WithinHookBounds(hook')
    /\ UNCHANGED <<form, formLog, votes, pageVars, navigatorOnLine, aiVars, aggVars, clsVars,
                   viewVars>>

\* the operation a sync awaits resolves: the next one is called, or after
\* the last one setPendingOperations([])
OperationResolves ==
    /\ \E i \in 1..Len(hook.syncs) :
        LET sync == hook.syncs[i]
        IN IF sync.at < Len(sync.operations)
           THEN hook' = [hook EXCEPT !.syncs[i].at = @ + 1,
                                     !.executed = Append(@, sync.operations[sync.at + 1])]
           ELSE hook' = SyncEffect([hook EXCEPT !.syncs = Without(@, i),
                                                !.pendingOperations = <<>>])
    /\ WithinHookBounds(hook')
    /\ UNCHANGED <<form, formLog, votes, pageVars, navigatorOnLine, aiVars, aggVars, clsVars,
                   viewVars>>

\* the operation a sync awaits rejects: catch, and the sync ends
OperationRejects ==
    /\ \E i \in 1..Len(hook.syncs) : hook' = [hook EXCEPT !.syncs = Without(@, i)]
    /\ WithinHookBounds(hook')
    /\ UNCHANGED <<form, formLog, votes, pageVars, navigatorOnLine, aiVars, aggVars, clsVars,
                   viewVars>>

\* the window's online / offline event: handleOnline / handleOffline
HookConnectivityChange ==
    /\ navigatorOnLine' = ~navigatorOnLine
    /\ hook' = SyncEffect([hook EXCEPT !.isOnline = navigatorOnLine'])
    /\ WithinHookBounds(hook')
    /\ UNCHANGED <<form, formLog, votes, pageVars, aiVars, aggVars, clsVars, viewVars>>

InitHook == Init

NextHook ==
    \/ AddPendingOperation \/ OperationResolves \/ OperationRejects
    \/ HookConnectivityChange

SpecHook == InitHook /\ [][NextHook]_vars

\* ================================================================ properties

HasCoordinates(report) == report.coordinates # NULL

\* C1: after the conversion the marker collection is exactly the 5 sample
\* markers followed by one marker per report that has coordinates, in
\* submission order and at the report's coordinates; a report without
\* coordinates yields no marker and does not stop the others.
C1_MarkersAreSamplesThenLocatedReports ==
    LET located == SelectSeq(newReports, HasCoordinates) IN
    /\ Len(allMarkers) = 5 + Len(located)
    /\ SubSeq(allMarkers, 1, 5) = sampleMarkers
    /\ \A k \in 1..Len(located) :
        /\ allMarkers[5 + k].lat = located[k].coordinates.lat
        /\ allMarkers[5 + k].lng = located[k].coordinates.lon

C1_Witness ==
    /\ Len(newReports) = 2
    /\ newReports[1].coordinates = NULL
    /\ newReports[2].coordinates # NULL
    /\ Len(allMarkers) = 6
    /\ allMarkers[6].lat = newReports[2].coordinates.lat

\* C2: in each rule table, a text matching two or more rules is classified with
\* the category, confidence and rationale of the earliest-listed matching rule
\* of that table.
C2_FirstMatchWins ==
    /\ (clsInput.table = "offline" /\ Cardinality(OfflineMatching(clsInput.text)) >= 2) =>
         LET r == OfflineRules[Earliest(OfflineMatching(clsInput.text))] IN
         /\ clsOutput.category = r.category
         /\ clsOutput.confidence = r.confidence
         /\ clsOutput.reasoning = r.reasoning
    /\ (clsInput.table = "online" /\ Cardinality(OnlineMatching(clsInput.text)) >= 2) =>
         LET r == OnlineRules[Earliest(OnlineMatching(clsInput.text))] IN
         /\ clsOutput.category = r.category
         /\ clsOutput.confidence = r.confidence
         /\ clsOutput.reasoning = r.reasoning

C2_Witness ==
    /\ clsInput.table = "offline"
    /\ clsInput.text = <<"D","a","n","g","e","r"," ","p","o","t","h","o","l","e">>
    /\ OfflineMatching(clsInput.text) = {1, 2}
    /\ clsOutput.category = "Safety Issue"

\* the category of the first entry of a priority order that has a matching rule
FirstInOrder(order, matched) ==
    IF \A k \in 1..Len(order) : order[k] \notin matched
    THEN "Other"
    ELSE order[Earliest({k \in 1..Len(order) : order[k] \in matched})]

MatchedCategories ==
    IF clsInput.table = "offline"
    THEN {OfflineRules[i].category : i \in OfflineMatching(clsInput.text)}
    ELSE {OnlineRules[i].category : i \in OnlineMatching(clsInput.text)}

StatedOrder ==
    << "Safety Issue", "Infrastructure", "Environmental", "Traffic", "High Priority",
       "Support Request", "Positive Feedback", "Issue Report", "Feature Request" >>

OnlineOrder ==
    << "High Priority", "Safety Issue", "Traffic", "Environmental", "Infrastructure",
       "Support Request", "Positive Feedback", "Issue Report", "Feature Request" >>

\* C3 as stated: both rule tables evaluate their rules in the order safety >
\* infrastructure > environmental > traffic > urgency > question > positive
\* feedback > issue > suggestion > default, so safety beats urgency and
\* infrastructure beats traffic on either path.
C3_SameOrderInBothTables ==
    clsOutput # NULL =>
        /\ clsOutput.category = FirstInOrder(StatedOrder, MatchedCategories)
        /\ {"Safety Issue", "High Priority"} \subseteq MatchedCategories
             => clsOutput.category = "Safety Issue"
        /\ {"Infrastructure", "Traffic"} \subseteq MatchedCategories
             => clsOutput.category = "Infrastructure"

\* C3 amended: the offline table evaluates its rules in the stated order; the
\* online-simulated table evaluates urgency > safety > traffic > environmental
\* > infrastructure > question > positive feedback > issue > suggestion >
\* default. Safety with urgency is Safety Issue offline and High Priority
\* online; infrastructure with traffic is Infrastructure offline unless the
\* safety rule matches too, and Traffic online unless the urgency or the
\* safety rule matches too.
C3_OrderOfEachTable ==
    clsOutput # NULL =>
        IF clsInput.table = "offline"
        THEN /\ clsOutput.category = FirstInOrder(StatedOrder, MatchedCategories)
             /\ {"Safety Issue", "High Priority"} \subseteq MatchedCategories
                  => clsOutput.category = "Safety Issue"
             /\ ({"Infrastructure", "Traffic"} \subseteq MatchedCategories
                 /\ "Safety Issue" \notin MatchedCategories)
                  => clsOutput.category = "Infrastructure"
        ELSE /\ clsOutput.category = FirstInOrder(OnlineOrder, MatchedCategories)
             /\ {"Safety Issue", "High Priority"} \subseteq MatchedCategories
                  => clsOutput.category = "High Priority"
             /\ ({"Infrastructure", "Traffic"} \subseteq MatchedCategories
                 /\ MatchedCategories \cap {"High Priority", "Safety Issue"} = {})
                  => clsOutput.category = "Traffic"

C3_Witness ==
    /\ clsInput.table = "online"
    /\ clsInput.text = <<"u","r","g","e","n","t"," ","D","a","n","g","e","r">>
    /\ {"Safety Issue", "High Priority"} \subseteq MatchedCategories
    /\ clsOutput.category = "High Priority"

\* C4 as stated: a text matching no rule of the active table is classified
\* Other with confidence 0.60 and the fallback flag set, whichever table.
C4_DefaultIsOther60Fallback ==
    (clsOutput # NULL /\ MatchedCategories = {}) =>
        /\ clsOutput.category = "Other"
        /\ clsOutput.confidence = 60
        /\ clsOutput.isOfflineFallback = TRUE

\* C4 amended: a text matching no rule is classified Other by both tables;
\* the offline table gives confidence 0.60 with the fallback flag set, the
\* online-simulated table gives confidence 0.80, an empty rationale and no
\* fallback flag.
C4_DefaultOfEachTable ==
    (clsOutput # NULL /\ MatchedCategories = {}) =>
        /\ clsOutput.category = "Other"
        /\ clsInput.table = "offline" =>
             clsOutput.confidence = 60 /\ clsOutput.isOfflineFallback = TRUE
        /\ clsInput.table = "online" =>
             /\ clsOutput.confidence = 80
             /\ clsOutput.isOfflineFallback = FALSE
             /\ clsOutput.reasoning = ""

C4_Witness ==
    /\ clsInput.table = "online"
    /\ clsInput.text = <<"x","y","z","1","2","3">>
    /\ MatchedCategories = {}
    /\ clsOutput.confidence = 80

\* what the offline table gives for a text: its earliest matching rule
OfflineTableResult(text) ==
    IF OfflineMatching(text) = {}
    THEN [category |-> "Other", confidence |-> 60, isOfflineFallback |-> TRUE,
          reasoning |-> "Unable to determine specific category. Content may require manual review."]
    ELSE LET r == OfflineRules[Earliest(OfflineMatching(text))] IN
         [category |-> r.category, confidence |-> r.confidence, isOfflineFallback |-> TRUE,
          reasoning |-> r.reasoning]

Classified ==
    /\ ~assistant.isLoading
    /\ assistant.error = NoError
    /\ assistant.result # NULL

\* C5: a classification of a non-blank text always ends with isLoading false,
\* no error and a result (while the component is mounted); after a failed
\* online call the result stored is the offline classification of the text
\* that was submitted; the error is never shown without the loading state.
C5_FailureIsRecoverable ==
    /\ [](aiMounted => (assistant.error # NoError => assistant.isLoading))
    /\ [][(aiMounted /\ aiCall.phase = "fallbackDelay" /\ aiCall'.phase = "none")
            => (aiMounted' /\ Classified' /\ assistant'.result = OfflineTableResult(aiCall.text))]_vars
    /\ (aiCall.phase # "none") ~> (~aiMounted \/ Classified)

C5_Witness ==
    /\ aiMounted
    /\ aiCall.phase = "fallbackDelay"
    /\ assistant.error # NoError
    /\ assistant.isLoading

\* C6 as stated: two runs with the same text and the same connectivity and
\* override setting end with the same result.
C6_SameInputSameResult ==
    (aiMounted /\ previousRun.sameInput /\ previousRun.result # NULL
              /\ assistant.result # NULL)
        => assistant.result = previousRun.result

\* C6 amended: the result is a function of the text and of the table that
\* produced it. Offline or with the override on, two runs on the same text
\* give the same offline result; online without override they give the same
\* result when both were produced by the same table, that is when the
\* simulated call failed in both or in neither.
C6_SameTableSameResult ==
    (aiMounted /\ previousRun.sameInput /\ previousRun.result # NULL
              /\ assistant.result # NULL)
        => /\ (~assistant.isOnline \/ assistant.useOfflineFallback)
                => (assistant.result = previousRun.result
                    /\ assistant.result.isOfflineFallback)
           /\ assistant.result.isOfflineFallback = previousRun.result.isOfflineFallback
                => assistant.result = previousRun.result

C6_Witness ==
    /\ aiMounted /\ previousRun.sameInput
    /\ previousRun.result # NULL /\ assistant.result # NULL
    /\ assistant.isOnline /\ ~assistant.useOfflineFallback
    /\ previousRun.result.isOfflineFallback # assistant.result.isOfflineFallback
    /\ previousRun.result.category # assistant.result.category

\* ------------------------------------------------------- selector properties
\* the mode of a view: Loading, LiveRendering, Fallback or the error state
ChartMode(c) == IF ChartDisplay(c) = "empty" THEN "live" ELSE ChartDisplay(c)

DashMode(d) ==
    IF ~d.mounted THEN "none"
    ELSE IF d.isOffline \/ d.googleChartsError THEN "fallback"
    ELSE IF d.googleChartsLoaded THEN "live"
    ELSE "loading"

ViewMode(v, m, c, d) ==
    CASE v = "map" -> MapDisplay(m)
      [] v = "chart" -> ChartMode(c)
      [] v = "dashboard" -> DashMode(d)
      [] OTHER -> "none"

ViewMounted == map.mounted \/ chart.mounted \/ dash.mounted

C8_FailureDegradesToFallback ==
    /\ (map.mounted /\ InFlight(mapInits) = 0) => MapDisplay(map) \in {"live", "fallback"}
    /\ (map.mounted /\ selectorLog.event = "failure" /\ mapInits.timers = 0)
         => (map.useOfflineMode /\ map.mapError = NoError /\ ~map.isLoading)
    /\ (chart.mounted /\ Pending(loader) = 0) => ChartMode(chart) \in {"live", "fallback"}
    /\ (chart.mounted /\ selectorLog.event = "failure") => chart.useOfflineMode
    /\ (dash.mounted /\ Pending(loader) = 0 /\ ~dash.loading)
         => DashDisplay(dash) \in {"live", "fallback"}
    /\ (dash.mounted /\ selectorLog.event = "failure" /\ ~dash.loading)
         => DashDisplay(dash) = "fallback"

\* C9: a step that takes a view from Fallback to LiveRendering is a user
\* toggle, an online event, or a library load that completes after an online
\* event with no offline event, failure or user action since.
C9_LeavesFallbackOnlyByToggleOrOnline ==
    [][(ViewMode(view, map, chart, dash) = "fallback"
            /\ ViewMode(view', map', chart', dash') = "live")
        => \/ selectorLog'.event = "toggle"
           \/ ~navigatorOnLine /\ navigatorOnLine'
           \/ /\ selectorLog.event = "online"
              /\ \/ loader'.callbacks < loader.callbacks
                 \/ mapInits'.waiting < mapInits.waiting]_vars

\* C10 as stated, for the map and the dashboard: the live container is
\* displayed only if the load succeeded, the view is online and neither an
\* override nor a failure is recorded; offline, overridden or with a recorded
\* failure the fallback renderer is displayed.
C10_LiveOnlyAfterLoadElseFallback ==
    /\ map.mounted =>
        /\ MapDisplay(map) = "live"
             => (map.instance /\ map.isOnline /\ ~map.useOfflineMode /\ map.mapError = NoError)
        /\ (~map.isOnline \/ map.useOfflineMode \/ map.mapError # NoError)
             => MapDisplay(map) = "fallback"
    /\ dash.mounted =>
        /\ DashDisplay(dash) = "live"
             => (dash.googleChartsLoaded /\ ~dash.isOffline /\ ~dash.googleChartsError)
        /\ (dash.isOffline \/ dash.googleChartsError) => DashDisplay(dash) = "fallback"

\* C10 amended. Map: the live container is displayed exactly when the view is
\* online with no override and no error, also while the library is still
\* loading, but then under the loading overlay: without the overlay it is
\* displayed only after the load succeeded (a map instance is attached); offline
\* or overridden the offline map is displayed, except that while mapError is
\* set and the override is off the error panel is displayed; a map instance
\* exists only online without override. Dashboard, once the reports are
\* loaded (before, the skeleton is displayed): the live containers are
\* displayed exactly when the library is loaded, the view is online and no
\* load failure is recorded, otherwise the fallback charts.
C10_LiveUnobscuredOnlyAfterLoad ==
    /\ map.mounted =>
        /\ MapDisplay(map) = "live"
             <=> (map.isOnline /\ ~map.useOfflineMode /\ map.mapError = NoError)
        /\ (MapDisplay(map) = "live" /\ ~MapOverlay(map)) => map.instance
        /\ (~map.isOnline \/ map.useOfflineMode)
             => MapDisplay(map) = (IF map.mapError # NoError /\ ~map.useOfflineMode
                                   THEN "error" ELSE "fallback")
    /\ map.instance => (map.mounted /\ map.isOnline /\ ~map.useOfflineMode)
    /\ (dash.mounted /\ ~dash.loading) =>
        /\ DashDisplay(dash) = "live"
             <=> (dash.googleChartsLoaded /\ ~dash.isOffline /\ ~dash.googleChartsError)
        /\ DashDisplay(dash) \in {"live", "fallback"}
    /\ (dash.mounted /\ dash.loading) => DashDisplay(dash) = "skeleton"
    /\ dash.googleChartsLoaded => window.google

C10_Witness ==
    /\ map.mounted
    /\ MapDisplay(map) = "live"
    /\ MapOverlay(map)
    /\ ~map.instance
    /\ mapInits.waiting > 0

\* C11: while the platform's last connectivity signal is offline the mounted
\* category chart is in Fallback (useOfflineMode = true), whatever script or
\* callback was pending when the offline event arrived.
C11_OfflineChartIsInFallback ==
    (chart.mounted /\ ~navigatorOnLine) => chart.useOfflineMode

\* C12: for the fixed report set the analytics dashboard shows the same
\* per-category counts (hence the same total) in LiveRendering as in Fallback:
\* whenever the Category Distribution card is rendered, live or fallback, it
\* shows the rows of the one aggregate analyticsData.category.
C12_LiveShowsWhatFallbackShows ==
    DashDisplay(dash) \in {"live", "fallback"} =>
        DashCategoryShown(dash) = FallbackPieChart(analyticsCategory)

\* C13: the markers the map's fallback renderer shows are exactly the current
\* marker collection (the sample markers and one marker per submitted report
\* with coordinates), also for a report submitted after the last snapshot.
C13_FallbackShowsCurrentMarkers ==
    MapDisplay(map) = "fallback" => markersToDisplay(map, allMarkers) = allMarkers

\* a step that mounts the map, which runs loadOfflineData
MountStep == ~map.mounted /\ map'.mounted

\* loaded has the centre, the zoom and the number of markers of saved
SameView(loaded, saved) ==
    /\ loaded # NULL
    /\ loaded.center = saved.center
    /\ loaded.zoom = saved.zoom
    /\ Len(loaded.markers) = Len(saved.markers)

\* C14 as stated: whatever snapshot s the last saveOfflineData call was given,
\* the loadOfflineData of the next mount yields an offlineData with the
\* centre, the zoom and the number of markers of s.
C14_SaveThenLoadRoundTrips ==
    [][(MountStep /\ saveLog.data # NULL) => SameView(map'.offlineData, saveLog.data)]_vars

\* C14 amended: the round trip holds for the snapshot of the last save that
\* stored (localStorage.setItem did not throw); a later save that failed does
\* not change what is loaded.
C14_StoredSaveThenLoadRoundTrips ==
    [][(MountStep /\ saveLog.kept # NULL) => SameView(map'.offlineData, saveLog.kept)]_vars

\* a snapshot was stored during an earlier mount and the map, mounted anew and
\* not yet initialized, has loaded it
C14_Witness ==
    /\ map.mounted /\ ~map.instance
    /\ selectorLog.event = "mount"
    /\ saveLog.kept # NULL
    /\ map.offlineData = saveLog.kept
    /\ saveLog.kept.center # EarlierSnapshot.center
    /\ Len(saveLog.kept.markers) > Len(sampleMarkers)

\* a step in which saveOfflineData was called and its write failed
FailedSaveStep == saveLog'.n # saveLog.n /\ ~saveLog'.stored

\* C15: the cache slot holds exactly the snapshot of the most recent save
\* that stored, every field from that one save; a save that fails leaves the
\* slot and the offlineData in memory as they were.
C15_SlotHoldsLastStoredSnapshot ==
    /\ [](saveLog.kept # NULL => window.snapshot = JSONstringify(saveLog.kept))
    /\ [][FailedSaveStep => /\ window'.snapshot = window.snapshot
                            /\ map'.offlineData = map.offlineData]_vars

\* a save has stored a snapshot and a later save of another snapshot failed
C15_Witness ==
    /\ saveLog.kept # NULL
    /\ ~saveLog.stored
    /\ saveLog.data # saveLog.kept
    /\ saveLog.data.lastUpdated > saveLog.kept.lastUpdated
    /\ window.snapshot = JSONstringify(saveLog.kept)
    /\ map.offlineData = saveLog.kept

RECURSIVE SumOf(_)
SumOf(values) == IF values = <<>> THEN 0 ELSE Head(values) + SumOf(Tail(values))

\* C16: in the dashboard, the total is the number of filtered reports and
\* the sum of the per-category, per-priority, per-status and per-location
\* counts, and every listed key has a count of at least 1.
C16_TotalEqualsEveryBreakdown ==
    dashMemo # NULL =>
        LET a == dashMemo.analyticsData
            total == dashMemo.kpiMetrics.total
        IN /\ total = Len(dashMemo.filteredReports)
           /\ \A d \in {a.category, a.priority, a.status, a.location} :
                /\ Len(d.labels) = Len(d.values)
                /\ SumOf(d.values) = total
                /\ \A i \in 1..Len(d.values) : d.values[i] >= 1

\* C17: the trend series has 7 entries, for the days from 6 days ago to
\* today in this order; each count is the number of filtered reports created
\* on that calendar day; the 7 counts sum to no more than the total.
C17_TrendIsSevenDayCounts ==
    dashMemo # NULL =>
        LET t == dashMemo.analyticsData.trends
            f == dashMemo.filteredReports
        IN /\ Len(t) = 7
           /\ \A i \in 1..7 :
                /\ t[i].date = Day(dashNow) - 7 + i
                /\ t[i].count =
                     Cardinality({k \in 1..Len(f) : Day(f[k].createdAt) = t[i].date})
           /\ SumCounts(t) <= dashMemo.kpiMetrics.total

\* two filtered reports, one created today and one on a day before the
\* seven: the counts sum to less than the total
C17_Witness ==
    /\ view = "dashboard"
    /\ Len(dashMemo.filteredReports) = 2
    /\ dashMemo.analyticsData.trends[7].count = 1
    /\ SumCounts(dashMemo.analyticsData.trends) = 1

C19_FilteredAreTheReportsPassingEveryFilter ==
    dashMemo # NULL =>
        LET Passes(r) ==
                /\ r.createdAt >= dashNow - parseInt(filters.dateRange) * TicksPerDay
                /\ filters.category = "all" \/ r.category = filters.category
                /\ filters.status \in {Unset, "all"} \/ r.status = filters.status
                /\ filters.priority \in {Unset, "all"} \/ r.priority = filters.priority
            passing == {i \in 1..Len(dashReports) : Passes(dashReports[i])}
            f == dashMemo.filteredReports
        IN /\ Len(f) = Cardinality(passing)
           /\ \A k \in 1..Len(f) :
                \E i \in passing :
                    /\ f[k] = dashReports[i]
                    /\ Cardinality({j \in passing : j < i}) = k - 1

\* the status filter is set and the priority filter is not; of two reports
\* one is dropped by the status filter and one by the date range
C19_Witness ==
    /\ view = "dashboard"
    /\ filters.status = "Open" /\ filters.priority = Unset /\ filters.dateRange = "7"
    /\ Len(dashReports) = 2
    /\ dashReports[1].status = "Resolved" /\ dashReports[1].createdAt = dashNow
    /\ dashReports[2].status = "Open" /\ dashReports[2].createdAt = dashNow - 15
    /\ dashMemo.filteredReports = <<>>

\* C20: the marker of every located report has the type of its category:
\* safety, infrastructure, environment, traffic and other for the five
\* labels, each label its own type, and other for every other category.
C20_CategoryMappingIsTotal ==
    LET expected(category) ==
            CASE category = "Safety Issue" -> "safety"
              [] category = "Infrastructure" -> "infrastructure"
              [] category = "Environmental" -> "environment"
              [] category = "Traffic" -> "traffic"
              [] OTHER -> "other"
        located == SelectSeq(newReports, LAMBDA r : r.coordinates # NULL)
    IN /\ \A c1, c2 \in FormCategories : expected(c1) = expected(c2) => c1 = c2
       /\ Len(allMarkers) = Len(sampleMarkers) + Len(located)
       /\ \A i \in 1..Len(located) :
            allMarkers[Len(sampleMarkers) + i].type = expected(located[i].category)

\* C21: every category the form submits is one of the five labels of the
\* mapping table and of the page's counters: no counter key is ever added,
\* and two located reports with different categories other than Other have
\* markers of different types.
C21_CategorySurvivesThePipeline ==
    LET located == SelectSeq(newReports, LAMBDA r : r.coordinates # NULL)
        marker(i) == allMarkers[Len(sampleMarkers) + i]
    IN /\ \A i \in 1..Len(newReports) : newReports[i].category \in FormCategories
       /\ DOMAIN categoryData = FormCategories
       /\ Len(allMarkers) = Len(sampleMarkers) + Len(located)
       /\ \A i, j \in 1..Len(located) :
            (/\ located[i].category # located[j].category
             /\ located[i].category # "Other" /\ located[j].category # "Other")
                => marker(i).type # marker(j).type

\* a step in which handleSubmit ended on a validation failure
InvalidStep == formLog'.event = "invalid" /\ formLog.event # "invalid"

\* a step in which handleSubmit ended because the location was not found
MissStep == formLog'.event = "miss" /\ formLog.event # "miss"

\* C22: one handleSubmit calls onSubmit at most once, and only with a
\* non-blank location, a chosen category, a description of at least 10
\* characters after trimming, and coordinates; a validation failure or a
\* location that is not found calls no onSubmit, sets an error, keeps the
\* fields, ends with isSubmitting false and starts no geocoding again;
\* whenever no handleSubmit is running isSubmitting is false.
C22_SubmitOnceOnlyWhenValid ==
    /\ [](formLog.calls <= 1)
    /\ [](form.call.phase = "none" => ~form.isSubmitting)
    /\ [][reports' # reports =>
            /\ trim(form.call.location) # <<>>
            /\ form.call.category # ""
            /\ Len(trim(form.call.description)) >= 10
            /\ form.call.coordinates # NULL
            /\ reports' = Append(reports, ReportOf(FormData(form.call), clock))
            /\ formLog'.calls = formLog.calls + 1]_vars
    /\ [][(InvalidStep \/ MissStep) =>
            /\ reports' = reports /\ newReports' = newReports
            /\ form'.errors # NoErrors
            /\ form'.location = form.location
            /\ form'.description = form.description
            /\ form'.category = form.category
            /\ ~form'.isSubmitting
            /\ form'.call.phase = "none"]_vars
    /\ [][(form'.call.phase = "geocoding" /\ form.call.phase # "geocoding")
            => formLog'.event = "start"]_vars

\* after one report was submitted, the location of the next one was not
\* found: the fields are as entered and the error is shown
C22_Witness ==
    /\ Len(reports) = 1
    /\ formLog.event = "miss"
    /\ form.location = <<" ", "k", "o">>
    /\ form.category # "" /\ Len(trim(form.description)) >= 10
    /\ form.errors.location # ""
    /\ ~form.isSubmitting

RECURSIVE SumOver(_, _)
SumOver(counters, keys) ==
    IF keys = {} THEN 0
    ELSE LET k == CHOOSE x \in keys : TRUE
         IN counters[k] + SumOver(counters, keys \ {k})

\* C29: reports and newReports have the same length and hold the same
\* reports in the same order, the category counters sum to that length, and
\* the Recent Reports panel shows the last min(3, length) reports, newest
\* first.
C29_PageListsAndCountersAgree ==
    LET n == Len(reports)
    IN /\ Len(newReports) = n
       /\ \A i \in 1..n : reports[i].data = newReports[i]
       /\ SumOver(categoryData, DOMAIN categoryData) = n
       /\ Len(RecentReportsPanel) = (IF n < 3 THEN n ELSE 3)
       /\ \A k \in 1..Len(RecentReportsPanel) : RecentReportsPanel[k] = reports[n + 1 - k]

\* four reports of four categories were submitted; the panel shows three
C29_Witness ==
    /\ Len(reports) = 4
    /\ Cardinality({reports[i].data.category : i \in 1..4}) = 4
    /\ Len(RecentReportsPanel) = 3
    /\ RecentReportsPanel[1] = reports[4]

C28_EveryOperationExecutedOnce ==
    /\ \A i, j \in 1..Len(hook.executed) : i < j => hook.executed[i] < hook.executed[j]
    /\ \A operation \in 1..hook.added :
        \/ \E i \in 1..Len(hook.executed) : hook.executed[i] = operation
        \/ \E i \in 1..Len(hook.pendingOperations) : hook.pendingOperations[i] = operation

\* C24: after the map has unmounted no callback calls its state setters any
\* more: no connectivity event (the listeners are removed, so no such step
\* is taken), no pending fallback timer and no late completion of an
\* initializeMap in flight.
C24_NoSetterCalledAfterUnmount ==
    selectorLog.event # "setState after unmount"

\* C25: whenever the map shows its fallback rendering while the platform is
\* online, the Online / Offline toggle that returns it to the live map is
\* rendered, also when no snapshot has ever been saved.
C25_ToggleAvailableInOnlineFallback ==
    (MapDisplay(map) = "fallback" /\ map.isOnline) => MapToggleRendered(map)

\* C26: no map instance stays attached while the fallback rendering is shown,
\* and with a live map attached and the platform online only the user (the
\* toggle, the "Use Offline Mode" button) sets useOfflineMode, never a
\* leftover initializeMap call or its timer. (mapInstanceRef holds one
\* instance and L.map throws on a container that has one, so that there is
\* at most one instance is built into map.instance.)
C26_StaleInitializationIsHarmless ==
    /\ [](MapDisplay(map) = "fallback" => ~map.instance)
    /\ [][(map.mounted /\ map.isOnline /\ map.instance /\ ~map.useOfflineMode
             /\ map'.useOfflineMode)
           => (MapToggleOfflineMode \/ MapUseOfflineMode)]_vars

\* C30: pressing Retry in the error panel starts an initialization: isLoading
\* is set, mapError is cleared and one more initializeMap call is in flight.
C30_RetryStartsAnInitialization ==
    [][MapRetry => /\ map'.isLoading
                   /\ map'.mapError = NoError
                   /\ InFlight(mapInits') = InFlight(mapInits) + 1]_vars

\* C27: at most one classification is in flight: handleClassify starts only
\* with isLoading false and no call pending, isLoading is true for as long as
\* a call is pending, and once toggleFallbackMode has cleared result and
\* error they stay cleared until the next classification is started.
C27_OneClassificationAndClearedStaysCleared ==
    /\ []((aiMounted /\ aiCall.phase # "none") => assistant.isLoading)
    /\ [][HandleClassify => (~assistant.isLoading /\ aiCall.phase = "none")]_vars
    /\ [][(aiMounted /\ aiMounted' /\ aiCall.cleared /\ aiCall'.cleared)
           => (assistant'.result = NULL /\ assistant'.error = NoError)]_vars

====
